---------------------------- MODULE Spec2Model ----------------------------
(***************************************************************************)
(* State-machine model of the fluid solver (class FluidSim) and of the GL  *)
(* helpers it is built on (makeFBO, makeDoubleFBO).                        *)
(*                                                                         *)
(* Numbers.  JavaScript numbers that are fractions are kept as scaled      *)
(* integers: device pixel ratios and the vorticity strength in tenths      *)
(* (1.8 is 18), the quality scalar in hundredths (0.75 is 75), points,     *)
(* radii and dissipation factors in thousandths, dt in milliseconds.       *)
(* Texel values are integers in units of 1/One; where a kernel divides,    *)
(* the result is rounded toward zero to that grid, which stands for the    *)
(* rounding of the half-float render targets.                              *)
(***************************************************************************)
EXTENDS Integers, Sequences, FiniteSets, TLC

\* ------------------------------------------------------------------ bounds
MaxOps == 2            \* handler calls explored after construction
MaxSteps == 1          \* of which calls of step()
MaxCalls == 3          \* handler calls explored when only the resolution manager runs
MaxFlow == 3           \* calls of splat() and step() explored when only these run
MaxProject == 2        \* calls of splat() and step() explored when the projection is studied
MaxWarm == 3           \* calls of splat() and step() explored when consecutive steps are studied
MaxLoss == 3           \* frames and events explored when the listeners that write running are studied
MaxPresent == 3        \* calls of splat(), step() and renderToScreen() explored when the presentation is studied
MaxApp == 3            \* frames, timer callbacks and events explored after the page is loaded
MaxRestore == 4        \* the same when a context loss is studied

\* canvas.clientWidth, clientHeight samples
SurfaceSizes == {<<9, 9>>, <<10, 9>>}
\* window.devicePixelRatio samples, tenths
PixelRatios == {20}
\* settings.qualityScale samples, hundredths
QualityValues == {90, 100}
\* options passed to the constructor
Options == {[qualityScale |-> 75, vorticity |-> 12, pressureIters |-> 2],
            [qualityScale |-> 100, vorticity |-> 0, pressureIters |-> 1]}
\* the same when only the resolution manager runs
WideSurfaceSizes == {<<0, 0>>, <<9, 9>>, <<10, 10>>, <<40, 30>>}
WidePixelRatios == {10, 20}
WideQualityValues == {10, 25, 90, 100, 500}
WideOptions == {[qualityScale |-> 75, vorticity |-> 12, pressureIters |-> 2],
                [qualityScale |-> 100, vorticity |-> 0, pressureIters |-> 1],
                [qualityScale |-> 500, vorticity |-> 0, pressureIters |-> 1]}
\* step(dt) samples, milliseconds
DtValues == {33}
\* the same when only splat() and step() run: two overlapping splats at a
\* corner of the grid
FlowSurfaceSizes == {<<10, 9>>}
LossSurfaceSizes == {<<9, 9>>, <<10, 9>>}
FlowDtValues == {0, 33}
FlowSplatArgs == {[point |-> <<150, 850>>, value |-> <<1, 0, 0>>, radius |-> 100],
                  [point |-> <<60, 940>>, value |-> <<30, 20, 3>>, radius |-> 100]}
\* the same when the projection is studied: a splat of the default radius,
\* which covers one cell of a 16 x 16 grid, and a wide one
ProjectSplatArgs == {[point |-> <<836, 836>>, value |-> <<64, 0, 0>>, radius |-> 15],
                     [point |-> <<500, 500>>, value |-> <<64, 0, 0>>, radius |-> 200]}
\* frame timestamps handed to tick(now), milliseconds
Timestamps == {5000, 10000}
\* the three points Math.random() gives seedDye
SeedPlacements == {<<<<281, 719>>, <<531, 531>>, <<719, 281>>>>}
\* where the pointer goes down, in canvasSpace
PointerPoints == {<<531, 531>>}
\* the colours pickColor gives
SeedColours == {<<8, 4, 2>>}
\* positions of the Quality Scale slider of the GUI (0.25 to 1.0 in steps of 0.05)
GuiQualityValues == {45, 100}
\* splat(point01, value3, radius01, target) samples
SplatArgs == {[point |-> <<500, 500>>, value |-> <<1, 0, 0>>, radius |-> 100],
              [point |-> <<450, 520>>, value |-> <<30, 20, 3>>, radius |-> 60]}
SplatTargets == {"velocity", "dye", "smoke"}

\* ------------------------------------------------------- program constants
DefaultMaxDPR == 18       \* settings.maxDPR: 1.8
DefaultVelDissipation == 998   \* settings.velDissipation: 0.998
DefaultDyeDissipation == 995   \* settings.dyeDissipation: 0.995
QualityLo == 25           \* clamp(qualityScale, 0.25, 1.0)
QualityHi == 100
MinSimDim == 16           \* Math.max(16, ...)
MinCanvasDim == 2         \* Math.max(2, ...)
InitialEmaFrame == 166    \* let emaFrame = 16.6, tenths of a millisecond
DefaultPressureIters == 18     \* settings.pressureIters: 18
DefaultVorticity == 10    \* settings.vorticity: 1.0
DefaultSplatRadius == 15  \* settings.splatRadius: 0.015
DefaultQualityScale == 75 \* settings.qualityScale: 0.75
FrameCap == 33            \* Math.min(0.033, ...), milliseconds
AdjustAbove == 190        \* ms > 19, tenths of a millisecond
AdjustBelow == 140        \* ms < 14
AutoQualityLo == 45       \* Math.max(0.45, ...)
AutoQualityHi == 100      \* Math.min(1.0, ...)
AdjustStep == 2           \* qualityScale - 0.02, qualityScale + 0.02
DefaultBloomThreshold == 600   \* settings.bloomThreshold: 0.6
DefaultBloomKnee == 700   \* settings.bloomKnee: 0.7

\* exp(-k/8) in units of 1/One, k = 0, 1, ...; below half a unit from k = 28 on
ExpTable == <<16, 14, 12, 11, 10, 9, 8, 7, 6, 5, 5, 4, 4, 3, 3, 2, 2, 2, 2,
              1, 1, 1, 1, 1, 1, 1, 1, 1>>

\* the texel value 1.0, which is exp(-0)
One == ExpTable[1]

\* ------------------------------------------------------------------- state
VARIABLES
  clientWidth,        \* canvas.clientWidth  (CSS pixels, set by layout)
  clientHeight,       \* canvas.clientHeight
  devicePixelRatio,   \* window.devicePixelRatio, tenths
  canvasWidth,        \* canvas.width  = gl.drawingBufferWidth
  canvasHeight,       \* canvas.height = gl.drawingBufferHeight
  settings,           \* this.settings (the fields the solver core reads)
  simW,               \* this._w
  simH,               \* this._h
  velocity,           \* this.velocity   (double FBO)
  pressure,           \* this.pressure   (double FBO)
  divergence,         \* this.divergence (FBO)
  curl,               \* this.curl       (FBO)
  dye,                \* this.dye        (double FBO)
  bloom,              \* this.bloom      {prefilter: FBO, blur: double FBO}
  textures,           \* live GL textures: name -> [w, h, ch, data]
  framebuffers,       \* live GL framebuffers: name -> attached texture name
  nextName,           \* next unused GL object name
  pc,                 \* position inside step(): the pass to issue next
  stepArgs,           \* locals of the running step(): w, h, dt, i
  passLog,            \* passes and swaps issued by the running or last step() or splat()
  glLog,              \* GL create/delete calls of the last handler, in order
  lastOp,             \* the handler that ran last
  reallocated,        \* did the last _resize() go past its early return
  splatHist,          \* per target: texels before the splats since the last other write, then for each its arguments and the texels before it
  budget,             \* handler calls still to be explored
  steps,              \* number of step() calls so far
  entry,              \* contents of velocity.read, pressure.read, dye.read when the running or last step() was entered
  sim,                \* app: the solver instance held by the application (0 is null, n the n-th constructed)
  constructed,        \* number of FluidSim instances constructed so far
  programs,           \* number of times _initGL has built the shader programs
  running,            \* app: running
  lastT,              \* app: lastT, milliseconds
  emaFrame,           \* app: emaFrame, tenths of a millisecond
  eventsAttached,     \* app: eventsAttached
  gui,                \* app: gui is set (setupGUI ran, its stats interval is armed)
  rafPending,         \* number of tick callbacks requested and not yet run
  errorShown,         \* showError has put up its message
  contextLost,        \* the WebGL context is lost (gl.isContextLost())
  visible,            \* document.visibilityState = "visible"
  tickArgs,           \* locals of the running tick(): dt, the quality scalar it found; active while tick is on the stack
  platform,           \* what the browser offers a constructor: "ok", "noContext" (getContext gives null) or "noFloat" (no EXT_color_buffer_float)
  stale,              \* the programs and buffers of the held instance were made before a context loss
  lastAdjust,         \* the last call of adjustQuality: ms, the scalar before and after, and whether it called _resize
  screen,             \* the canvas: calls of renderToScreen so far, and the texture (name, texels) and the bloom texture its last draw to the canvas sampled
  reducedMotion       \* prefersReducedMotion.matches, the media query (prefers-reduced-motion: reduce)

vars == <<clientWidth, clientHeight, devicePixelRatio, canvasWidth, canvasHeight,
          settings, simW, simH, velocity, pressure, divergence, curl, dye, bloom,
          textures, framebuffers, nextName, pc, stepArgs, passLog, glLog, lastOp,
          reallocated, splatHist, budget, steps, entry, sim, constructed, programs,
          running, lastT, emaFrame, eventsAttached, gui, rafPending, errorShown,
          contextLost, visible, tickArgs, platform, stale, lastAdjust, screen,
          reducedMotion>>

\* the application's variables but the canvas
hostVars == <<sim, constructed, programs, running, lastT, emaFrame, eventsAttached, gui,
              rafPending, errorShown, contextLost, visible, tickArgs, platform, stale,
              lastAdjust, reducedMotion>>
appVars == <<sim, constructed, programs, running, lastT, emaFrame, eventsAttached, gui,
             rafPending, errorShown, contextLost, visible, tickArgs, platform, stale,
             lastAdjust, screen, reducedMotion>>
envVars == <<clientWidth, clientHeight, devicePixelRatio>>
fieldVars == <<velocity, pressure, divergence, curl, dye, bloom>>
glVars == <<textures, framebuffers, nextName>>
stepVars == <<pc, stepArgs, passLog, steps>>

\* --------------------------------------------------------------- arithmetic
Max(a, b) == IF a >= b THEN a ELSE b
Min(a, b) == IF a <= b THEN a ELSE b

\* clamp(v, lo, hi) = Math.max(lo, Math.min(hi, v))
clamp(v, lo, hi) == Max(lo, Min(hi, v))

\* division rounding toward zero
Quot(a, b) == IF a >= 0 THEN a \div b ELSE 0 - ((0 - a) \div b)

Abs(a) == IF a >= 0 THEN a ELSE 0 - a

SeqRange(s) == {s[i] : i \in 1 .. Len(s)}

\* --------------------------------------------------------------- GL objects
Cells(w, h) == (0 .. w - 1) \X (0 .. h - 1)

\* Texture data is kept as the function from the cells holding a non-zero
\* texel to that texel; every other cell of the w x h grid holds ZeroTexel.
ZeroTexel(ch) == [k \in 1 .. ch |-> 0]

\* an allocation that leaves a stale texel in the new storage
StaleData(w, h, ch) == [c \in {<<0, 0>>} |-> [k \in 1 .. ch |-> One]]

\* texImage2D(..., null): storage of w x h texels of ch channels, all zero
ZeroData(w, h, ch) == [c \in {} |-> ZeroTexel(ch)]

\* the texel of texture t at cell c
TexelAt(t, c) == IF c \in DOMAIN t.data THEN t.data[c] ELSE ZeroTexel(t.ch)

\* channel counts of the sized internal formats RG16F, R16F, RGBA16F
RG == 2
R == 1
RGBA == 4

\* makeFBO returns { tex, fb, w, h }; the texture and the framebuffer are
\* created together and get the same number in their two name spaces.
makeFBO(name, w, h) == [tex |-> name, fb |-> name, w |-> w, h |-> h]

\* makeDoubleFBO: two FBOs a and b; read is a, write is b.
makeDoubleFBO(name, w, h) == [a |-> makeFBO(name, w, h), b |-> makeFBO(name + 1, w, h)]

read(dbl) == dbl.a

\* a write side that is the read side: passes draw in place
writeInPlace(dbl) == dbl.a

write(dbl) == dbl.b

\* a swap that copies b into a and loses the exchange
swapAliased(dbl) == [a |-> dbl.b, b |-> dbl.b]

\* a swap that exchanges the textures and leaves the framebuffers in place
swapTexOnly(dbl) ==
  [a |-> [tex |-> dbl.b.tex, fb |-> dbl.a.fb, w |-> dbl.b.w, h |-> dbl.b.h],
   b |-> [tex |-> dbl.a.tex, fb |-> dbl.b.fb, w |-> dbl.a.w, h |-> dbl.a.h]]

\* swap(): exchanges tex, fb, w and h of a and b
swap(dbl) ==
  [a |-> [tex |-> dbl.b.tex, fb |-> dbl.b.fb, w |-> dbl.b.w, h |-> dbl.b.h],
   b |-> [tex |-> dbl.a.tex, fb |-> dbl.a.fb, w |-> dbl.a.w, h |-> dbl.a.h]]

\* the FBO objects held by fields f, in the order in which _allocate makes them
FBOsOf(f) ==
  <<f.velocity.a, f.velocity.b, f.pressure.a, f.pressure.b, f.divergence, f.curl,
    f.dye.a, f.dye.b, f.bloom.prefilter, f.bloom.blur.a, f.bloom.blur.b>>

\* channel count of each, from the internal format its makeFBO call is given
AllocChannels == <<RG, RG, R, R, R, R, RGBA, RGBA, RGBA, RGBA, RGBA>>
AllocCount == Len(AllocChannels)

Fields ==
  [velocity |-> velocity, pressure |-> pressure, divergence |-> divergence,
   curl |-> curl, dye |-> dye, bloom |-> bloom]

\* ------------------------------------------------------ FluidSim._allocate
\* an _allocate that makes the dye buffers with the two axes exchanged
AllocateTransposed(n, width, height) ==
  [velocity |-> makeDoubleFBO(n, width, height),
   pressure |-> makeDoubleFBO(n + 2, width, height),
   divergence |-> makeFBO(n + 4, width, height),
   curl |-> makeFBO(n + 5, width, height),
   dye |-> makeDoubleFBO(n + 6, height, width),
   bloom |-> [prefilter |-> makeFBO(n + 8, width, height),
              blur |-> makeDoubleFBO(n + 9, width, height)]]

\* _allocate(width, height): the new values of the fields, GL names from n on
Allocate(n, width, height) ==
  [velocity |-> makeDoubleFBO(n, width, height),
   pressure |-> makeDoubleFBO(n + 2, width, height),
   divergence |-> makeFBO(n + 4, width, height),
   curl |-> makeFBO(n + 5, width, height),
   dye |-> makeDoubleFBO(n + 6, width, height),
   bloom |-> [prefilter |-> makeFBO(n + 8, width, height),
              blur |-> makeDoubleFBO(n + 9, width, height)]]

\* the textures made by the makeFBO calls behind fields f
TexturesOf(f) ==
  LET fbos == FBOsOf(f)
  IN  [name \in {fbos[k].tex : k \in 1 .. AllocCount} |->
         LET k == CHOOSE j \in 1 .. AllocCount : fbos[j].tex = name
         IN  [w |-> fbos[k].w, h |-> fbos[k].h, ch |-> AllocChannels[k],
              data |-> ZeroData(fbos[k].w, fbos[k].h, AllocChannels[k])]]

\* ------------------------------------------------------- FluidSim._dispose
\* a _dispose that forgets the curl buffer
DisposedLeaky(f) ==
  <<f.velocity.a, f.velocity.b, f.pressure.a, f.pressure.b, f.divergence,
    f.dye.a, f.dye.b, f.bloom.prefilter, f.bloom.blur.a, f.bloom.blur.b>>

\* the FBO objects whose framebuffer and texture _dispose deletes, in order
Disposed(f) ==
  <<f.velocity.a, f.velocity.b, f.pressure.a, f.pressure.b, f.divergence, f.curl,
    f.dye.a, f.dye.b, f.bloom.prefilter, f.bloom.blur.a, f.bloom.blur.b>>

\* _dispose() followed by _allocate(width, height)
DisposeAllocate(width, height) ==
  LET n == nextName
      gone == Disposed(Fields)
      goneTex == {gone[k].tex : k \in 1 .. Len(gone)}
      goneFb == {gone[k].fb : k \in 1 .. Len(gone)}
      f == Allocate(n, width, height)
      fresh == TexturesOf(f)
      freshFb == {FBOsOf(f)[k].fb : k \in 1 .. AllocCount}
      keptT == DOMAIN textures \ goneTex
      keptF == DOMAIN framebuffers \ goneFb
  IN  /\ textures' = [t \in keptT \cup DOMAIN fresh |->
                        IF t \in DOMAIN fresh THEN fresh[t] ELSE textures[t]]
      /\ framebuffers' = [b \in keptF \cup freshFb |->
                            IF b \in freshFb THEN b ELSE framebuffers[b]]
      /\ nextName' = n + AllocCount
      /\ velocity' = f.velocity
      /\ pressure' = f.pressure
      /\ divergence' = f.divergence
      /\ curl' = f.curl
      /\ dye' = f.dye
      /\ bloom' = f.bloom
      /\ glLog' = [k \in 1 .. Len(gone) |-> [call |-> "delete", name |-> gone[k].tex]]
                  \o [k \in 1 .. AllocCount |-> [call |-> "create", name |-> FBOsOf(f)[k].tex]]

\* ------------------------------------------------------ sampling, drawing
\* a stored texel as the vec4 a sampler returns: missing channels read as
\* 0, a missing alpha as 1.0
Vec4(t, c) ==
  LET s == TexelAt(t, c)
  IN  [k \in 1 .. 4 |-> IF k <= t.ch THEN s[k] ELSE IF k = 4 THEN One ELSE 0]

\* a sampler whose wrap mode is REPEAT
textureRepeat(t, xn, xd, yn, yd) ==
  Vec4(t, <<((xn * t.w) \div xd) % t.w, ((yn * t.h) \div yd) % t.h>>)

\* texture(tex, uv) with uv = (xn/xd, yn/yd), NEAREST filter, CLAMP_TO_EDGE wrap
texture(t, xn, xd, yn, yd) ==
  Vec4(t, <<clamp((xn * t.w) \div xd, 0, t.w - 1), clamp((yn * t.h) \div yd, 0, t.h - 1)>>)

\* texture(tex, uv + (di, dj) * u_texelSize) for the fragment of cell c, where
\* uv = gl_FragCoord.xy * u_texelSize and u_texelSize = (1/tw, 1/th)
Neighbour(t, c, di, dj, tw, th) ==
  texture(t, 2 * c[1] + 1 + 2 * di, 2 * tw, 2 * c[2] + 1 + 2 * dj, 2 * th)

\* one draw call on the textures texs: viewport (0, 0, dst.w, dst.h), render
\* target the texture attached to dst.fb, fragment colour frag[c], stored in
\* the target's channels; the call has no effect on a lost context and with
\* a program made before a context loss
DrawIn(texs, dst, frag) ==
  LET name == framebuffers[dst.fb]
      t == texs[name]
      view == Cells(dst.w, dst.h)
      out == [c \in Cells(t.w, t.h) |->
                IF c \in view
                  THEN LET v == frag[c] IN [k \in 1 .. t.ch |-> v[k]]
                  ELSE TexelAt(t, c)]
      data == [c \in {d \in Cells(t.w, t.h) : out[d] # ZeroTexel(t.ch)} |-> out[c]]
  IN  IF contextLost \/ stale THEN texs ELSE [texs EXCEPT ![name].data = data]

Draw(dst, frag) == DrawIn(textures, dst, frag)

PassEntry(kernel, dst, src) == [kernel |-> kernel, dst |-> dst, src |-> src]
SwapEntry(field) == [kernel |-> "swap", dst |-> field, src |-> <<>>]

\* ---------------------------------------------------------------- FS_SPLAT
\* a = exp(-dot(d, d) / (r*r + 1e-6)) with d = uv - u_point, in units of 1/One;
\* d is taken in thousandths, so dot(d, d) and r*r + 1e-6 are in millionths
SplatWeight(c, point, radius, tw, th) ==
  LET dx == ((2 * c[1] + 1) * 500 - point[1] * tw) \div tw
      dy == ((2 * c[2] + 1) * 500 - point[2] * th) \div th
      k == (8 * (dx * dx + dy * dy)) \div (radius * radius + 1)
  IN  IF k < Len(ExpTable) THEN ExpTable[k + 1] ELSE 0

\* a splat that writes its contribution over the texel
FS_SPLAT_Overwrite(t, c, point, value, radius, tw, th) ==
  LET a == SplatWeight(c, point, radius, tw, th)
  IN  <<value[1] * a, value[2] * a, value[3] * a, One>>

\* frag = base + vec4(u_value * a, 1.0)
FS_SPLAT(t, c, point, value, radius, tw, th) ==
  LET a == SplatWeight(c, point, radius, tw, th)
      base == Neighbour(t, c, 0, 0, tw, th)
  IN  <<base[1] + value[1] * a, base[2] + value[2] * a, base[3] + value[3] * a,
        base[4] + One>>

\* --------------------------------------------------------- FluidSim.splat
\* the record of splats of a target with no splat since its last other write
NoSplats == [velocity |-> <<>>, dye |-> <<>>]

\* a splat whose program samples the write side of its target
SplatResultStale(texs, tgt, args) ==
  LET src == texs[write(tgt).tex]
      frag == [c \in Cells(write(tgt).w, write(tgt).h) |->
                 FS_SPLAT(src, c, args.point, args.value, args.radius,
                          read(tgt).w, read(tgt).h)]
  IN  [textures |-> DrawIn(texs, write(tgt), frag), target |-> swap(tgt)]

\* splat(point, value, radius, target) on the textures texs and the double FBO
\* tgt: the splat program draws into tgt.write from tgt.read, then tgt.swap()
SplatResult(texs, tgt, args) ==
  LET src == texs[read(tgt).tex]
      frag == [c \in Cells(write(tgt).w, write(tgt).h) |->
                 FS_SPLAT(src, c, args.point, args.value, args.radius,
                          read(tgt).w, read(tgt).h)]
  IN  [textures |-> DrawIn(texs, write(tgt), frag), target |-> swap(tgt)]

\* a choice of the target that takes the dye only when it is named
SplatFieldStrict(target) == IF target = "dye" THEN "dye" ELSE "velocity"

\* tgt = target === "velocity" ? this.velocity : this.dye
SplatField(target) == IF target = "velocity" THEN "velocity" ELSE "dye"

SplatIn(argset) ==
  /\ pc = "idle"
  /\ budget > 0
  /\ budget' = budget - 1
  /\ lastOp' = "splat"
  /\ \E args \in argset, target \in SplatTargets :
       LET key == SplatField(target)
           tgt == IF key = "velocity" THEN velocity ELSE dye
           res == SplatResult(textures, tgt, args)
       IN  /\ textures' = res.textures
           /\ passLog' = <<PassEntry("splat", framebuffers[write(tgt).fb], <<read(tgt).tex>>),
                           SwapEntry(key)>>
           /\ IF key = "velocity"
                THEN velocity' = res.target /\ UNCHANGED dye
                ELSE dye' = res.target /\ UNCHANGED velocity
           /\ splatHist' = [splatHist EXCEPT ![key] =
                              LET before == textures[read(tgt).tex].data
                                  this == [args |-> args, before |-> before,
                                           target |-> target]
                              IN  IF @ = <<>> THEN <<before, this>> ELSE Append(@, this)]
  /\ glLog' = <<>>
  /\ UNCHANGED <<envVars, canvasWidth, canvasHeight, settings, simW, simH, pressure,
                 divergence, curl, bloom, framebuffers, nextName, pc, stepArgs, steps,
                 reallocated, entry, appVars>>

Splat == SplatIn(SplatArgs)

\* ----------------------------------------------------------- the kernels
\* FS_CURL: R.y - L.y - (T.x - B.x) of the velocity neighbours
FS_CURL(vel, c, tw, th) ==
  LET L == Neighbour(vel, c, -1, 0, tw, th)[2]
      Rt == Neighbour(vel, c, 1, 0, tw, th)[2]
      B == Neighbour(vel, c, 0, -1, tw, th)[1]
      T == Neighbour(vel, c, 0, 1, tw, th)[1]
  IN  <<Rt - L - (T - B), 0, 0, One>>

\* floor of the square root
RECURSIVE SqrtBetween(_, _, _)
SqrtBetween(n, lo, hi) ==
  IF lo >= hi THEN lo
  ELSE LET mid == (lo + hi + 1) \div 2
       IN  IF mid * mid <= n THEN SqrtBetween(n, mid, hi) ELSE SqrtBetween(n, lo, mid - 1)

ISqrt(n) == SqrtBetween(n, 0, Min(n, 46340))

\* FS_VORTICITY: v += u_eps * (N.y, -N.x) * curl * u_dt with N the normalised
\* gradient of |curl|; eps in tenths, dt in milliseconds
FS_VORTICITY(vel, crl, c, tw, th, dt, eps) ==
  LET L == Abs(Neighbour(crl, c, -1, 0, tw, th)[1])
      Rt == Abs(Neighbour(crl, c, 1, 0, tw, th)[1])
      B == Abs(Neighbour(crl, c, 0, -1, tw, th)[1])
      T == Abs(Neighbour(crl, c, 0, 1, tw, th)[1])
      gx == Rt - L
      gy == T - B
      mag == ISqrt(gx * gx + gy * gy)
      Nx == IF mag = 0 THEN 0 ELSE Quot(gx * One, mag)
      Ny == IF mag = 0 THEN 0 ELSE Quot(gy * One, mag)
      cv == Neighbour(crl, c, 0, 0, tw, th)[1]
      fx == Quot(eps * Ny * cv, 10 * One)
      fy == Quot(eps * (0 - Nx) * cv, 10 * One)
      v == Neighbour(vel, c, 0, 0, tw, th)
  IN  <<v[1] + Quot(fx * dt, 1000), v[2] + Quot(fy * dt, 1000), 0, One>>

\* mix(x, y, a) = x * (1 - a) + y * a with a = f / den
Mix(x, y, f, den) == Quot(x * (den - f) + y * f, den)

\* GLSL_BILERP: the four taps around xy = uv * resolution - 0.5, given as
\* (ix + fx / den, iy + fy / den), blended with the bilinear weights
bilerp(t, ix, fx, iy, fy, den, rw, rh) ==
  LET c00 == texture(t, 2 * ix + 1, 2 * rw, 2 * iy + 1, 2 * rh)
      c10 == texture(t, 2 * ix + 3, 2 * rw, 2 * iy + 1, 2 * rh)
      c01 == texture(t, 2 * ix + 1, 2 * rw, 2 * iy + 3, 2 * rh)
      c11 == texture(t, 2 * ix + 3, 2 * rw, 2 * iy + 3, 2 * rh)
  IN  [k \in 1 .. 4 |->
         Mix(Mix(c00[k], c10[k], fx, den), Mix(c01[k], c11[k], fx, den), fy, den)]

\* an advection whose sampler leaves out the half-texel shift of xy
FS_ADVECT_Unshifted(source, vel, c, tw, th, dt, dissipation) ==
  LET den == 1000 * One
      v == Neighbour(vel, c, 0, 0, tw, th)
      xn == c[1] * den + den \div 2 - dt * v[1] * th
      yn == c[2] * den + den \div 2 - dt * v[2] * th
      ix == xn \div den
      iy == yn \div den
      src == bilerp(source, ix, xn - ix * den, iy, yn - iy * den, den, tw, th)
  IN  [k \in 1 .. 4 |-> Quot(src[k] * dissipation, 1000)]

\* FS_ADVECT: coord = uv - u_dt * vel * (res.y / res.x, 1); frag =
\* bilerp(u_source, coord, u_resolution) * u_dissipation.  In cells, coord *
\* res - 0.5 is (i - dt * vel.x * res.y, j - dt * vel.y * res.y).
FS_ADVECT(source, vel, c, tw, th, dt, dissipation) ==
  LET den == 1000 * One
      v == Neighbour(vel, c, 0, 0, tw, th)
      xn == c[1] * den - dt * v[1] * th
      yn == c[2] * den - dt * v[2] * th
      ix == xn \div den
      iy == yn \div den
      src == bilerp(source, ix, xn - ix * den, iy, yn - iy * den, den, tw, th)
  IN  [k \in 1 .. 4 |-> Quot(src[k] * dissipation, 1000)]

\* FS_DIVERGENCE: 0.5 * ((R.x - L.x) + (T.y - B.y))
FS_DIVERGENCE(vel, c, tw, th) ==
  LET L == Neighbour(vel, c, -1, 0, tw, th)[1]
      Rt == Neighbour(vel, c, 1, 0, tw, th)[1]
      B == Neighbour(vel, c, 0, -1, tw, th)[2]
      T == Neighbour(vel, c, 0, 1, tw, th)[2]
  IN  <<Quot((Rt - L) + (T - B), 2), 0, 0, One>>

\* FS_PRESSURE: (L + R + B + T - div) * 0.25
FS_PRESSURE(prs, div, c, tw, th) ==
  LET L == Neighbour(prs, c, -1, 0, tw, th)[1]
      Rt == Neighbour(prs, c, 1, 0, tw, th)[1]
      B == Neighbour(prs, c, 0, -1, tw, th)[1]
      T == Neighbour(prs, c, 0, 1, tw, th)[1]
      d == Neighbour(div, c, 0, 0, tw, th)[1]
  IN  <<Quot(L + Rt + B + T - d, 4), 0, 0, One>>

\* FS_GRADIENT: v - 0.5 * (R - L, T - B)
FS_GRADIENT(vel, prs, c, tw, th) ==
  LET L == Neighbour(prs, c, -1, 0, tw, th)[1]
      Rt == Neighbour(prs, c, 1, 0, tw, th)[1]
      B == Neighbour(prs, c, 0, -1, tw, th)[1]
      T == Neighbour(prs, c, 0, 1, tw, th)[1]
      v == Neighbour(vel, c, 0, 0, tw, th)
  IN  <<v[1] - Quot(Rt - L, 2), v[2] - Quot(T - B, 2), 0, One>>

\* ----------------------------------------------------------- FluidSim.step
\* what every pass of step() leaves alone
StepFrame ==
  /\ lastOp' = "step"
  /\ glLog' = <<>>
  /\ UNCHANGED <<envVars, canvasWidth, canvasHeight, settings, simW, simH, bloom,
                 framebuffers, nextName, reallocated, budget, steps, entry, appVars>>

\* a step that runs the vorticity pass whatever the strength
AfterCurlAlways(eps) == "vorticity"

\* a step that never runs the vorticity pass
AfterCurlSkipped(eps) == "advectVelocity"

\* if (this.settings.vorticity > 0.0) { vorticity pass }, then advection
AfterCurl(eps) == IF eps > 0 THEN "vorticity" ELSE "advectVelocity"

\* the contents of the three read sides
ReadContents ==
  [velocity |-> textures[read(velocity).tex].data,
   pressure |-> textures[read(pressure).tex].data,
   dye |-> textures[read(dye).tex].data]

\* step(dt): entry (w, h and texel are taken from velocity.read) and the curl pass
StepCurlWith(dt) ==
  /\ stepArgs' = [w |-> read(velocity).w, h |-> read(velocity).h, dt |-> dt, i |-> 0]
  /\ entry' = ReadContents
  /\ LET w == read(velocity).w
         h == read(velocity).h
         vel == textures[read(velocity).tex]
         Frag(c) == FS_CURL(vel, c, w, h)
     IN  /\ textures' = Draw(curl, [c \in Cells(curl.w, curl.h) |-> Frag(c)])
         /\ passLog' = <<PassEntry("curl", framebuffers[curl.fb], <<read(velocity).tex>>)>>
  /\ pc' = AfterCurl(settings.vorticity)
  /\ steps' = steps + 1
  /\ lastOp' = "step"
  /\ glLog' = <<>>
  /\ UNCHANGED <<envVars, canvasWidth, canvasHeight, settings, simW, simH, fieldVars,
                 framebuffers, nextName, reallocated, splatHist>>

\* step(dt) called on the solver directly
StepCurlIn(dts) ==
  /\ pc = "idle"
  /\ budget > 0
  /\ steps < MaxSteps
  /\ budget' = budget - 1
  /\ \E dt \in dts : StepCurlWith(dt)
  /\ UNCHANGED appVars

StepCurl == StepCurlIn(DtValues)

StepVorticity ==
  /\ pc = "vorticity"
  /\ LET vel == textures[read(velocity).tex]
         crl == textures[curl.tex]
         Frag(c) == FS_VORTICITY(vel, crl, c, stepArgs.w, stepArgs.h, stepArgs.dt,
                                 settings.vorticity)
     IN  /\ textures' = Draw(write(velocity), [c \in Cells(write(velocity).w, write(velocity).h) |-> Frag(c)])
         /\ passLog' = passLog \o
              <<PassEntry("vorticity", framebuffers[write(velocity).fb],
                          <<read(velocity).tex, curl.tex>>),
                SwapEntry("velocity")>>
  /\ velocity' = swap(velocity)
  /\ pc' = "advectVelocity"
  /\ StepFrame
  /\ UNCHANGED <<pressure, divergence, curl, dye, stepArgs, splatHist>>

StepAdvectVelocity ==
  /\ pc = "advectVelocity"
  /\ LET vel == textures[read(velocity).tex]
         Frag(c) == FS_ADVECT(vel, vel, c, stepArgs.w, stepArgs.h, stepArgs.dt,
                              settings.velDissipation)
     IN  /\ textures' = Draw(write(velocity), [c \in Cells(write(velocity).w, write(velocity).h) |-> Frag(c)])
         /\ passLog' = passLog \o
              <<PassEntry("advectVelocity", framebuffers[write(velocity).fb],
                          <<read(velocity).tex, read(velocity).tex>>),
                SwapEntry("velocity")>>
  /\ velocity' = swap(velocity)
  /\ pc' = "divergence"
  /\ StepFrame
  /\ UNCHANGED <<pressure, divergence, curl, dye, stepArgs, splatHist>>

\* a divergence pass followed by a clear of the pressure field
StepDivergenceClearing ==
  /\ pc = "divergence"
  /\ LET vel == textures[read(velocity).tex]
         Frag(c) == FS_DIVERGENCE(vel, c, stepArgs.w, stepArgs.h)
         drawn == Draw(divergence, [c \in Cells(divergence.w, divergence.h) |-> Frag(c)])
     IN  /\ textures' = [drawn EXCEPT ![read(pressure).tex].data = <<>>]
         /\ passLog' = Append(passLog, PassEntry("divergence", framebuffers[divergence.fb],
                                                 <<read(velocity).tex>>))
  /\ pc' = "pressure"
  /\ StepFrame
  /\ UNCHANGED <<fieldVars, stepArgs, splatHist>>

StepDivergence ==
  /\ pc = "divergence"
  /\ LET vel == textures[read(velocity).tex]
         Frag(c) == FS_DIVERGENCE(vel, c, stepArgs.w, stepArgs.h)
     IN  /\ textures' = Draw(divergence, [c \in Cells(divergence.w, divergence.h) |-> Frag(c)])
         /\ passLog' = Append(passLog, PassEntry("divergence", framebuffers[divergence.fb],
                                                 <<read(velocity).tex>>))
  /\ pc' = "pressure"
  /\ StepFrame
  /\ UNCHANGED <<fieldVars, stepArgs, splatHist>>

\* a loop condition that lets one iteration more through
PressureLoopInclusive(i, n) == i <= n

\* the condition i < this.settings.pressureIters of the pressure loop
PressureLoop(i, n) == i < n

\* one iteration of the loop for (i = 0; i < pressureIters; i++)
StepPressure ==
  /\ pc = "pressure"
  /\ PressureLoop(stepArgs.i, settings.pressureIters)
  /\ LET prs == textures[read(pressure).tex]
         div == textures[divergence.tex]
         Frag(c) == FS_PRESSURE(prs, div, c, stepArgs.w, stepArgs.h)
     IN  /\ textures' = Draw(write(pressure), [c \in Cells(write(pressure).w, write(pressure).h) |-> Frag(c)])
         /\ passLog' = passLog \o
              <<PassEntry("pressure", framebuffers[write(pressure).fb],
                          <<read(pressure).tex, divergence.tex>>),
                SwapEntry("pressure")>>
  /\ pressure' = swap(pressure)
  /\ stepArgs' = [stepArgs EXCEPT !.i = @ + 1]
  /\ pc' = "pressure"
  /\ StepFrame
  /\ UNCHANGED <<velocity, divergence, curl, dye, splatHist>>

\* the loop is left and the gradient is subtracted
StepGradient ==
  /\ pc = "pressure"
  /\ ~PressureLoop(stepArgs.i, settings.pressureIters)
  /\ LET vel == textures[read(velocity).tex]
         prs == textures[read(pressure).tex]
         Frag(c) == FS_GRADIENT(vel, prs, c, stepArgs.w, stepArgs.h)
     IN  /\ textures' = Draw(write(velocity), [c \in Cells(write(velocity).w, write(velocity).h) |-> Frag(c)])
         /\ passLog' = passLog \o
              <<PassEntry("gradient", framebuffers[write(velocity).fb],
                          <<read(velocity).tex, read(pressure).tex>>),
                SwapEntry("velocity")>>
  /\ velocity' = swap(velocity)
  /\ pc' = "advectDye"
  /\ StepFrame
  /\ UNCHANGED <<pressure, divergence, curl, dye, stepArgs, splatHist>>

\* the last pass; step() returns
StepAdvectDye ==
  /\ pc = "advectDye"
  /\ LET src == textures[read(dye).tex]
         vel == textures[read(velocity).tex]
         Frag(c) == FS_ADVECT(src, vel, c, stepArgs.w, stepArgs.h, stepArgs.dt,
                              settings.dyeDissipation)
     IN  /\ textures' = Draw(write(dye), [c \in Cells(write(dye).w, write(dye).h) |-> Frag(c)])
         /\ passLog' = passLog \o
              <<PassEntry("advectDye", framebuffers[write(dye).fb],
                          <<read(dye).tex, read(velocity).tex>>),
                SwapEntry("dye")>>
  /\ dye' = swap(dye)
  /\ pc' = IF tickArgs.active THEN "tickRender" ELSE "idle"
  /\ splatHist' = NoSplats
  /\ StepFrame
  /\ UNCHANGED <<velocity, pressure, divergence, curl, stepArgs>>

\* ------------------------------------------------- FluidSim.renderToScreen
\* const float weights[5] of FS_BLUR, in millionths
BlurWeights == <<227027, 194595, 121622, 54054, 16216>>

\* FS_BLOOM_PREFILTER: c * contribution / max(brightness, 1e-4), where
\* brightness = max(c.r, c.g, c.b), soft = clamp(brightness - threshold +
\* knee, 0, 2 knee), soft = soft * soft / (4 knee + 1e-4) and contribution =
\* max(soft, brightness - threshold); threshold and knee in thousandths, the
\* intermediate values in units of 1/(1000 One)
FS_BLOOM_PREFILTER(src, c, tw, th, threshold, knee) ==
  LET v == Neighbour(src, c, 0, 0, tw, th)
      brightness == 1000 * Max(v[1], Max(v[2], v[3]))
      s == clamp(brightness - threshold * One + knee * One, 0, 2 * knee * One)
      soft == (s * s) \div (4 * knee * One + 2)
      contribution == Max(soft, brightness - threshold * One)
      den == Max(brightness, 2)
  IN  <<Quot(v[1] * contribution, den), Quot(v[2] * contribution, den),
        Quot(v[3] * contribution, den), One>>

\* FS_BLUR: the nine taps along u_direction, weighted
FS_BLUR(src, c, tw, th, dir) ==
  LET Tap(i) == Neighbour(src, c, i * dir[1], i * dir[2], tw, th)
      Sum(k) == BlurWeights[1] * Tap(0)[k]
                + BlurWeights[2] * (Tap(1)[k] + Tap(0 - 1)[k])
                + BlurWeights[3] * (Tap(2)[k] + Tap(0 - 2)[k])
                + BlurWeights[4] * (Tap(3)[k] + Tap(0 - 3)[k])
                + BlurWeights[5] * (Tap(4)[k] + Tap(0 - 4)[k])
  IN  <<Quot(Sum(1), 1000000), Quot(Sum(2), 1000000), Quot(Sum(3), 1000000), One>>

\* a presentation that samples the write side of the dye
PresentedDyeStale(d) == write(d)

\* the FBO whose texture renderToScreen binds as u_dye and u_base: this.dye.read
PresentedDye(d) == read(d)

\* what every pass of renderToScreen() leaves alone
RenderFrame ==
  /\ lastOp' = "render"
  /\ glLog' = <<>>
  /\ UNCHANGED <<envVars, canvasWidth, canvasHeight, settings, simW, simH, velocity,
                 pressure, divergence, curl, dye, framebuffers, nextName, reallocated,
                 splatHist, stepArgs, passLog, steps, entry, hostVars>>

\* the draw on the canvas (bindFBO(gl, null)) by program kernel, sampling the
\* textures src of which the first is the dye; the canvas is kept as the
\* texels of the dye that the draw sampled, and the draw has no effect on a
\* lost context; renderToScreen() returns
RenderCanvas(kernel, src) ==
  /\ screen' = [screen EXCEPT
                  !.passes = Append(@, PassEntry(kernel, 0, src)),
                  !.data = IF contextLost \/ stale THEN @ ELSE textures[src[1]].data]
  /\ pc' = IF tickArgs.active THEN "tickTail" ELSE "idle"

\* renderToScreen() up to its first draw: with bloom, the prefilter pass from
\* the dye into bloom.prefilter; without, the render pass on the canvas
RenderFirst ==
  LET src == PresentedDye(dye)
      pre == bloom.prefilter
      counted == [screen EXCEPT !.renders = @ + 1, !.passes = <<>>]
  IN  IF settings.bloomEnabled
        THEN /\ textures' =
                  Draw(pre, [c \in Cells(pre.w, pre.h) |->
                               FS_BLOOM_PREFILTER(textures[src.tex], c, src.w, src.h,
                                                  settings.bloomThreshold,
                                                  settings.bloomKnee)])
             /\ screen' = [counted EXCEPT
                             !.passes = <<PassEntry("bloomPrefilter", framebuffers[pre.fb],
                                                    <<src.tex>>)>>]
             /\ pc' = "blurH"
             /\ UNCHANGED bloom
        ELSE /\ screen' = [counted EXCEPT
                             !.passes = <<PassEntry("render", 0, <<src.tex>>)>>,
                             !.data = IF contextLost \/ stale THEN @
                                      ELSE textures[src.tex].data]
             /\ pc' = IF tickArgs.active THEN "tickTail" ELSE "idle"
             /\ UNCHANGED <<textures, bloom>>

\* renderToScreen() called on the solver directly
Render ==
  /\ pc = "idle"
  /\ budget > 0
  /\ budget' = budget - 1
  /\ RenderFirst
  /\ RenderFrame

\* the horizontal blur from bloom.prefilter into bloom.blur.write, then
\* bloom.blur.swap()
RenderBlurH ==
  /\ pc = "blurH"
  /\ LET pre == bloom.prefilter
         dst == write(bloom.blur)
     IN  /\ textures' = Draw(dst, [c \in Cells(dst.w, dst.h) |->
                                     FS_BLUR(textures[pre.tex], c, pre.w, pre.h, <<1, 0>>)])
         /\ screen' = [screen EXCEPT !.passes =
                         @ \o <<PassEntry("blur", framebuffers[dst.fb], <<pre.tex>>),
                                SwapEntry("blur")>>]
  /\ bloom' = [bloom EXCEPT !.blur = swap(@)]
  /\ pc' = "blurV"
  /\ RenderFrame
  /\ UNCHANGED budget

\* the vertical blur from bloom.blur.read into bloom.blur.write (u_texelSize
\* is still that of bloom.prefilter), then bloom.blur.swap()
RenderBlurV ==
  /\ pc = "blurV"
  /\ LET pre == bloom.prefilter
         src == read(bloom.blur)
         dst == write(bloom.blur)
     IN  /\ textures' = Draw(dst, [c \in Cells(dst.w, dst.h) |->
                                     FS_BLUR(textures[src.tex], c, pre.w, pre.h, <<0, 1>>)])
         /\ screen' = [screen EXCEPT !.passes =
                         @ \o <<PassEntry("blur", framebuffers[dst.fb], <<src.tex>>),
                                SwapEntry("blur")>>]
  /\ bloom' = [bloom EXCEPT !.blur = swap(@)]
  /\ pc' = "composite"
  /\ RenderFrame
  /\ UNCHANGED budget

\* the composite of the dye and bloom.blur.read on the canvas
RenderComposite ==
  /\ pc = "composite"
  /\ RenderCanvas("bloomFinal", <<PresentedDye(dye).tex, read(bloom.blur).tex>>)
  /\ RenderFrame
  /\ UNCHANGED <<textures, bloom, budget>>

\* -------------------------------------------------------- FluidSim._resize
\* dpr = Math.min(window.devicePixelRatio || 1, this.settings.maxDPR)
Dpr(ratio, maxDPR) == Min(IF ratio = 0 THEN 10 ELSE ratio, maxDPR)

\* a scale taken from the setting as it is
ScaleUnclamped(quality) == quality

\* scale = clamp(this.settings.qualityScale, 0.25, 1.0)
Scale(quality) == clamp(quality, QualityLo, QualityHi)

\* a simulation axis without its floor of 16
SimDimUnfloored(client, dpr, scale) == (client * dpr * scale) \div 1000

\* Math.max(16, Math.floor(client * dpr * scale))
SimDim(client, dpr, scale) == Max(MinSimDim, (client * dpr * scale) \div 1000)

\* Math.max(2, Math.floor(client * dpr))
CanvasDim(client, dpr) == Max(MinCanvasDim, (client * dpr) \div 10)

\* gl.drawingBufferWidth and gl.drawingBufferHeight: the size of the canvas
\* backing store; on a lost context an implementation may report 0 instead
DrawingBuffers ==
  IF contextLost THEN {<<0, 0>>, <<canvasWidth, canvasHeight>>}
  ELSE {<<canvasWidth, canvasHeight>>}

\* the condition of the early return of _resize
ResizeIsNoop(db, width, height) ==
  /\ db[1] = width
  /\ db[2] = height
  /\ simW = width
  /\ simH = height

\* the width and height _resize computes for a quality scalar
ResizeDims(quality) ==
  LET dpr == Dpr(devicePixelRatio, settings.maxDPR)
      scale == Scale(quality)
  IN  <<SimDim(clientWidth, dpr, scale), SimDim(clientHeight, dpr, scale)>>

\* how _resize() ends: at its early return, after _allocate, or with the
\* exception makeFBO throws when the context is lost (createTexture gives
\* null, checkFramebufferStatus is not FRAMEBUFFER_COMPLETE)
ResizeOutcome(quality, db) ==
  IF ResizeIsNoop(db, ResizeDims(quality)[1], ResizeDims(quality)[2]) THEN "noop"
  ELSE IF contextLost THEN "thrown" ELSE "allocated"

\* _resize() with settings.qualityScale = quality and the drawing buffer db
ResizeWith(quality, db) ==
  LET dpr == Dpr(devicePixelRatio, settings.maxDPR)
      width == ResizeDims(quality)[1]
      height == ResizeDims(quality)[2]
      outcome == ResizeOutcome(quality, db)
  IN  IF outcome = "noop"
        THEN /\ reallocated' = FALSE
             /\ glLog' = <<>>
             /\ UNCHANGED <<canvasWidth, canvasHeight, simW, simH, fieldVars, glVars,
                            splatHist>>
        ELSE IF outcome = "allocated"
        THEN /\ reallocated' = TRUE
             /\ canvasWidth' = CanvasDim(clientWidth, dpr)
             /\ canvasHeight' = CanvasDim(clientHeight, dpr)
             /\ DisposeAllocate(width, height)
             /\ simW' = width
             /\ simH' = height
             /\ splatHist' = NoSplats
        ELSE /\ reallocated' = TRUE
             /\ canvasWidth' = CanvasDim(clientWidth, dpr)
             /\ canvasHeight' = CanvasDim(clientHeight, dpr)
             /\ glLog' = <<>>
             /\ UNCHANGED <<simW, simH, fieldVars, glVars, splatHist>>

Resize ==
  /\ pc = "idle"
  /\ budget > 0
  /\ budget' = budget - 1
  /\ lastOp' = "resize"
  /\ \E db \in DrawingBuffers : ResizeWith(settings.qualityScale, db)
  /\ UNCHANGED <<envVars, settings, stepVars, entry, appVars>>

\* ---------------------------------------------------------- FluidSim.reset
Reset ==
  /\ pc = "idle"
  /\ budget > 0
  /\ budget' = budget - 1
  /\ lastOp' = "reset"
  /\ DisposeAllocate(simW, simH)
  /\ splatHist' = NoSplats
  /\ UNCHANGED <<envVars, settings, canvasWidth, canvasHeight, simW, simH, reallocated,
                 stepVars, entry, appVars>>

\* ------------------------------------------------------------- environment
\* layout changes the CSS size of the canvas
SetSurfaceIn(sizes) ==
  /\ pc = "idle"
  /\ budget > 0
  /\ budget' = budget - 1
  /\ \E s \in sizes :
       /\ s # <<clientWidth, clientHeight>>
       /\ clientWidth' = s[1]
       /\ clientHeight' = s[2]
  /\ lastOp' = "surface"
  /\ glLog' = <<>>
  /\ UNCHANGED <<devicePixelRatio, canvasWidth, canvasHeight, settings, simW, simH,
                 fieldVars, glVars, reallocated, splatHist, stepVars, entry, appVars>>

SetSurface == SetSurfaceIn(SurfaceSizes)

\* the quality scalar is a public field of settings, written by its users
SetQualityIn(values) ==
  /\ pc = "idle"
  /\ budget > 0
  /\ budget' = budget - 1
  /\ \E q \in values :
       /\ q # settings.qualityScale
       /\ settings' = [settings EXCEPT !.qualityScale = q]
  /\ lastOp' = "quality"
  /\ glLog' = <<>>
  /\ UNCHANGED <<envVars, canvasWidth, canvasHeight, simW, simH,
                 fieldVars, glVars, reallocated, splatHist, stepVars, entry, appVars>>

\* ------------------------------------------------------------- constructor
\* no call of adjustQuality yet
NoAdjust == [ms |-> 0, before |-> 0, after |-> 0, resized |-> FALSE]

\* nothing has been drawn to the canvas yet
NoScreen == [renders |-> 0, passes |-> <<>>, data |-> <<>>]

\* this.settings after Object.assign(this.settings, options)
Settings(options) ==
  [dyeDissipation |-> DefaultDyeDissipation,
   velDissipation |-> DefaultVelDissipation,
   pressureIters |-> options.pressureIters,
   vorticity |-> options.vorticity,
   qualityScale |-> options.qualityScale,
   maxDPR |-> DefaultMaxDPR,
   bloomEnabled |-> IF "bloomEnabled" \in DOMAIN options THEN options.bloomEnabled ELSE TRUE,
   bloomThreshold |-> DefaultBloomThreshold,
   bloomKnee |-> DefaultBloomKnee]

\* new FluidSim(canvas, options): the settings, then _resize() with _w and
\* _h undefined, so that its early return cannot be taken
InitIn(sizes, ratios, opts, calls) ==
  /\ \E s \in sizes : clientWidth = s[1] /\ clientHeight = s[2]
  /\ devicePixelRatio \in ratios
  /\ \E o \in opts : settings = Settings(o)
  /\ LET dpr == Dpr(devicePixelRatio, settings.maxDPR)
         scale == Scale(settings.qualityScale)
         width == SimDim(clientWidth, dpr, scale)
         height == SimDim(clientHeight, dpr, scale)
         f == Allocate(1, width, height)
     IN  /\ canvasWidth = CanvasDim(clientWidth, dpr)
         /\ canvasHeight = CanvasDim(clientHeight, dpr)
         /\ simW = width
         /\ simH = height
         /\ textures = TexturesOf(f)
         /\ framebuffers = [b \in {FBOsOf(f)[k].fb : k \in 1 .. AllocCount} |-> b]
         /\ nextName = 1 + AllocCount
         /\ velocity = f.velocity
         /\ pressure = f.pressure
         /\ divergence = f.divergence
         /\ curl = f.curl
         /\ dye = f.dye
         /\ bloom = f.bloom
         /\ glLog = [k \in 1 .. AllocCount |-> [call |-> "create", name |-> FBOsOf(f)[k].tex]]
  /\ pc = "idle"
  /\ stepArgs = [w |-> 0, h |-> 0, dt |-> 0, i |-> 0]
  /\ passLog = <<>>
  /\ lastOp = "construct"
  /\ reallocated = TRUE
  /\ splatHist = NoSplats
  /\ budget = calls
  /\ steps = 0
  /\ entry = ReadContents
  /\ sim = 1
  /\ constructed = 1
  /\ programs = 1
  /\ running = TRUE
  /\ lastT = 0
  /\ emaFrame = InitialEmaFrame
  /\ eventsAttached = FALSE
  /\ gui = FALSE
  /\ rafPending = 0
  /\ errorShown = FALSE
  /\ contextLost = FALSE
  /\ visible = TRUE
  /\ tickArgs = [active |-> FALSE, dt |-> 0, now |-> 0, before |-> 0, quality |-> 0]
  /\ platform = "ok"
  /\ stale = FALSE
  /\ lastAdjust = NoAdjust
  /\ screen = NoScreen
  /\ reducedMotion = FALSE

SetQuality == SetQualityIn(QualityValues)

Init == InitIn(SurfaceSizes, PixelRatios, Options, MaxOps)

Next ==
  \/ Resize
  \/ Reset
  \/ SetSurface
  \/ SetQuality
  \/ Splat
  \/ StepCurl
  \/ StepVorticity
  \/ StepAdvectVelocity
  \/ StepDivergence
  \/ StepPressure
  \/ StepGradient
  \/ StepAdvectDye

Spec == Init /\ [][Next]_vars

\* the resolution manager alone, over a wider range of surfaces, pixel
\* ratios and quality scalars
InitResize == InitIn(WideSurfaceSizes, WidePixelRatios, WideOptions, MaxCalls)

SetSurfaceWide == SetSurfaceIn(WideSurfaceSizes)

SetQualityWide == SetQualityIn(WideQualityValues)

NextResize ==
  \/ Resize
  \/ Reset
  \/ SetSurfaceWide
  \/ SetQualityWide

SpecResize == InitResize /\ [][NextResize]_vars

\* splat() and step() alone, from the state the constructor leaves
InitFlow == InitIn(FlowSurfaceSizes, PixelRatios, Options, MaxFlow)

SplatFlow == SplatIn(FlowSplatArgs)

StepCurlFlow == StepCurlIn(FlowDtValues)

NextFlow ==
  \/ SplatFlow
  \/ StepCurlFlow
  \/ StepVorticity
  \/ StepAdvectVelocity
  \/ StepDivergence
  \/ StepPressure
  \/ StepGradient
  \/ StepAdvectDye

SpecFlow == InitFlow /\ [][NextFlow]_vars

\* splat() and step() alone on a solver with the default iteration count
\* (vorticity switched off), on one with the options of the first kind and
\* on one with a negative vorticity strength
ProjectOptions == {[qualityScale |-> 75, vorticity |-> 0, pressureIters |-> DefaultPressureIters],
                   [qualityScale |-> 75, vorticity |-> 12, pressureIters |-> 2],
                   [qualityScale |-> 75, vorticity |-> 0 - 5, pressureIters |-> 1]}

InitProject == InitIn(FlowSurfaceSizes, PixelRatios, ProjectOptions, MaxProject)

SplatProject == SplatIn(ProjectSplatArgs)

NextProject ==
  \/ SplatProject
  \/ StepCurlFlow
  \/ StepVorticity
  \/ StepAdvectVelocity
  \/ StepDivergence
  \/ StepPressure
  \/ StepGradient
  \/ StepAdvectDye

SpecProject == InitProject /\ [][NextProject]_vars

\* splat(), step() and renderToScreen() alone, on a solver with bloom and on
\* one without (vorticity switched off, so the vorticity pass never runs)
PresentOptions == {[qualityScale |-> 75, vorticity |-> 0, pressureIters |-> 1,
                    bloomEnabled |-> TRUE],
                   [qualityScale |-> 75, vorticity |-> 0, pressureIters |-> 1,
                    bloomEnabled |-> FALSE]}

InitPresent == InitIn(FlowSurfaceSizes, PixelRatios, PresentOptions, MaxPresent)

NextPresent ==
  \/ SplatFlow
  \/ StepCurlFlow
  \/ StepAdvectVelocity
  \/ StepDivergence
  \/ StepPressure
  \/ StepGradient
  \/ StepAdvectDye
  \/ Render
  \/ RenderBlurH
  \/ RenderBlurV
  \/ RenderComposite

SpecPresent == InitPresent /\ [][NextPresent]_vars

\* splat() and step() alone, step() as often as the calls allow, on solvers
\* with one and with two pressure iterations (vorticity switched off, so the
\* vorticity pass never runs)
WarmOptions == {[qualityScale |-> 75, vorticity |-> 0, pressureIters |-> 1],
                [qualityScale |-> 75, vorticity |-> 0, pressureIters |-> 2]}

InitWarm == InitIn(FlowSurfaceSizes, PixelRatios, WarmOptions, MaxWarm)

StepCurlWarm ==
  /\ pc = "idle"
  /\ budget > 0
  /\ budget' = budget - 1
  /\ \E dt \in DtValues : StepCurlWith(dt)
  /\ UNCHANGED appVars

NextWarm ==
  \/ SplatProject
  \/ StepCurlWarm
  \/ StepAdvectVelocity
  \/ StepDivergence
  \/ StepPressure
  \/ StepGradient
  \/ StepAdvectDye

SpecWarm == InitWarm /\ [][NextWarm]_vars

\* ------------------------------------------------------------ application
\* the options init() passes to the constructor
AppOptions == [qualityScale |-> 75, vorticity |-> 12, pressureIters |-> 22,
               dyeDissipation |-> 992]

\* the settings of new FluidSim(canvas), as the context-restored handler calls it
DefaultOptions == [qualityScale |-> DefaultQualityScale, vorticity |-> DefaultVorticity,
                   pressureIters |-> DefaultPressureIters]

\* this.settings of the instance init() makes
AppSettings == [Settings(AppOptions) EXCEPT !.dyeDissipation = AppOptions.dyeDissipation]

\* what a constructor can find
Platforms == {"ok", "noContext", "noFloat"}

\* a constructor that does not ask for the float render-target extension
ConstructorThrowsNoContextOnly(pf) == pf = "noContext"

\* getGL() gives null, or checkFloatSupport(gl) is false: the constructor throws
ConstructorThrows(pf) == pf # "ok"

\* the fields of an instance that does not exist
NoFBO == [tex |-> 0, fb |-> 0, w |-> 0, h |-> 0]
NoDoubleFBO == [a |-> NoFBO, b |-> NoFBO]
NoContents == [velocity |-> <<>>, pressure |-> <<>>, dye |-> <<>>]

\* what _resize may write
resizeVars == <<canvasWidth, canvasHeight, simW, simH, fieldVars, glVars, splatHist,
                reallocated, glLog>>

\* new FluidSim(canvas, options) where nothing throws: the settings, _initGL()
\* and _resize() with _w and _h undefined. The buffers of an instance made
\* before a context loss went with that context.
Construct(st) ==
  LET dpr == Dpr(devicePixelRatio, st.maxDPR)
      scale == Scale(st.qualityScale)
      width == SimDim(clientWidth, dpr, scale)
      height == SimDim(clientHeight, dpr, scale)
      f == Allocate(nextName, width, height)
  IN  /\ settings' = st
      /\ programs' = programs + 1
      /\ canvasWidth' = CanvasDim(clientWidth, dpr)
      /\ canvasHeight' = CanvasDim(clientHeight, dpr)
      /\ simW' = width
      /\ simH' = height
      /\ textures' = TexturesOf(f)
      /\ framebuffers' = [b \in {FBOsOf(f)[k].fb : k \in 1 .. AllocCount} |-> b]
      /\ nextName' = nextName + AllocCount
      /\ velocity' = f.velocity
      /\ pressure' = f.pressure
      /\ divergence' = f.divergence
      /\ curl' = f.curl
      /\ dye' = f.dye
      /\ bloom' = f.bloom
      /\ glLog' = [k \in 1 .. AllocCount |-> [call |-> "create", name |-> FBOsOf(f)[k].tex]]
      /\ reallocated' = TRUE
      /\ splatHist' = NoSplats
      /\ passLog' = <<>>
      /\ entry' = NoContents
      /\ constructed' = constructed + 1
      /\ sim' = constructed + 1
      /\ stale' = FALSE

\* init(): the constructor in its try block; on an exception showError and
\* return; else attachEvents() and setupGUI(), then seedDye() and the first
\* requestAnimationFrame; if (prefersReducedMotion.matches) running = false
AppInit ==
  /\ pc = "load"
  /\ IF ConstructorThrows(platform)
       THEN /\ errorShown' = TRUE
            /\ pc' = "idle"
            /\ lastOp' = "initFailed"
            /\ UNCHANGED <<settings, resizeVars, passLog, entry, sim, constructed, programs,
                           stale, eventsAttached, gui, running>>
       ELSE /\ Construct(AppSettings)
            /\ eventsAttached' = TRUE
            /\ gui' = TRUE
            /\ running' = IF reducedMotion THEN FALSE ELSE running
            /\ pc' = "initSeed"
            /\ lastOp' = "construct"
            /\ UNCHANGED errorShown
  /\ UNCHANGED <<envVars, stepArgs, steps, budget, lastT, emaFrame, rafPending,
                 contextLost, visible, tickArgs, platform, lastAdjust, screen,
                 reducedMotion>>

\* requestAnimationFrame(tick): one more callback is pending
Requested(n) == n + 1

\* sim.splat([x, y], c, sim.settings.splatRadius * 1.5, "dye")
SeedArgs(point, colour) ==
  [point |-> point, value |-> colour, radius |-> (DefaultSplatRadius * 3) \div 2]

\* seedDye(): three dye splats at random points, which ends init() (with
\* requestAnimationFrame(tick)) and the try block of the context-restored
\* handler (with running = true)
SeedDye ==
  /\ pc \in {"initSeed", "restoreSeed"}
  /\ \E place \in SeedPlacements, colour \in SeedColours :
       LET p1 == place[1]
           p2 == place[2]
           p3 == place[3]
           r1 == SplatResult(textures, dye, SeedArgs(p1, colour))
           r2 == SplatResult(r1.textures, r1.target, SeedArgs(p2, colour))
           r3 == SplatResult(r2.textures, r2.target, SeedArgs(p3, colour))
           fb1 == framebuffers[write(dye).fb]
           fb2 == framebuffers[read(dye).fb]
       IN  /\ textures' = r3.textures
           /\ dye' = r3.target
           /\ passLog' = <<PassEntry("splat", fb1, <<read(dye).tex>>), SwapEntry("dye"),
                           PassEntry("splat", fb2, <<write(dye).tex>>), SwapEntry("dye"),
                           PassEntry("splat", fb1, <<read(dye).tex>>), SwapEntry("dye")>>
           /\ splatHist' = [splatHist EXCEPT !.dye =
                              (IF @ = <<>> THEN <<textures[read(dye).tex].data>> ELSE @)
                              \o <<[args |-> SeedArgs(p1, colour),
                                    before |-> textures[read(dye).tex].data],
                                   [args |-> SeedArgs(p2, colour),
                                    before |-> r1.textures[read(r1.target).tex].data],
                                   [args |-> SeedArgs(p3, colour),
                                    before |-> r2.textures[read(r2.target).tex].data]>>]
  /\ IF pc = "initSeed"
       THEN /\ rafPending' = Requested(rafPending)
            /\ lastOp' = "init"
            /\ UNCHANGED running
       ELSE /\ running' = TRUE
            /\ lastOp' = "restored"
            /\ UNCHANGED rafPending
  /\ pc' = "idle"
  /\ glLog' = <<>>
  /\ UNCHANGED <<envVars, canvasWidth, canvasHeight, settings, simW, simH, velocity,
                 pressure, divergence, curl, bloom, framebuffers, nextName, stepArgs, steps,
                 reallocated, budget, entry, sim, constructed, programs, lastT, emaFrame,
                 eventsAttached, gui, errorShown, contextLost, visible, tickArgs, platform,
                 stale, lastAdjust, screen,
                 reducedMotion>>

\* a frame driver that hands the raw difference of the timestamps on
TickDtUnclamped(now, last) == now - last

\* dt = Math.min(0.033, Math.max(0.0, (now - lastT) / 1000)), milliseconds
TickDt(now, last) == Min(FrameCap, Max(0, now - last))

\* an adjustment without the floor and the ceiling
AdjustedQualityUnclamped(ms, q) ==
  IF ms > AdjustAbove THEN q - AdjustStep
  ELSE IF ms < AdjustBelow THEN q + AdjustStep
  ELSE q

\* the quality scalar adjustQuality(ms) leaves, ms in tenths of a millisecond
AdjustedQuality(ms, q) ==
  IF ms > AdjustAbove /\ q > AutoQualityLo THEN Max(AutoQualityLo, q - AdjustStep)
  ELSE IF ms < AdjustBelow /\ q < AutoQualityHi THEN Min(AutoQualityHi, q + AdjustStep)
  ELSE q

\* does adjustQuality(ms) take one of its two branches, which end in sim._resize()
AdjustResizes(ms, q) ==
  \/ ms > AdjustAbove /\ q > AutoQualityLo
  \/ ms < AdjustBelow /\ q < AutoQualityHi

\* does adjustQuality(ms) end with the exception of its sim._resize()
AdjustThrows(ms, db) ==
  /\ AdjustResizes(ms, settings.qualityScale)
  /\ ResizeOutcome(AdjustedQuality(ms, settings.qualityScale), db) = "thrown"

\* adjustQuality(ms) with the drawing buffer db
AdjustQuality(ms, db) ==
  LET q == settings.qualityScale
      after == AdjustedQuality(ms, q)
  IN  /\ settings' = [settings EXCEPT !.qualityScale = after]
      /\ lastAdjust' = [ms |-> ms, before |-> q, after |-> after,
                        resized |-> AdjustResizes(ms, q)]
      /\ IF AdjustResizes(ms, q) THEN ResizeWith(after, db) ELSE UNCHANGED resizeVars

\* tick(now) up to the call of step: dt, lastT and, if (running && sim),
\* sim._resize(), whose exception ends the callback before it asks for
\* another frame
Tick ==
  /\ pc = "idle"
  /\ rafPending > 0
  /\ budget > 0
  /\ budget' = budget - 1
  /\ rafPending' = rafPending - 1
  /\ lastOp' = "tick"
  /\ \E now \in Timestamps, db \in DrawingBuffers :
       LET dt == TickDt(now, lastT)
           steps_ == running /\ sim # 0
           thrown == steps_ /\ ResizeOutcome(settings.qualityScale, db) = "thrown"
       IN  /\ lastT' = now
           /\ tickArgs' = [active |-> ~thrown, dt |-> dt, now |-> now, before |-> lastT,
                           quality |-> IF sim # 0 THEN settings.qualityScale ELSE 0]
           /\ IF steps_ THEN ResizeWith(settings.qualityScale, db) ELSE UNCHANGED resizeVars
           /\ pc' = IF thrown THEN "idle" ELSE IF steps_ THEN "tickStep" ELSE "tickTail"
  /\ UNCHANGED <<envVars, settings, stepArgs, passLog, steps, entry, sim, constructed,
                 programs, running, emaFrame, eventsAttached, gui, errorShown, contextLost,
                 visible, platform, stale, lastAdjust, screen,
                 reducedMotion>>

\* sim.step(dt) of tick: entry and the curl pass
TickStep ==
  /\ pc = "tickStep"
  /\ StepCurlWith(tickArgs.dt)
  /\ UNCHANGED <<budget, appVars>>

\* sim.renderToScreen() of tick
TickRender ==
  /\ pc = "tickRender"
  /\ RenderFirst
  /\ RenderFrame
  /\ UNCHANGED budget

\* the rest of tick: emaFrame = 0.9 * emaFrame + 0.1 * (dt * 1000) in tenths
\* of a millisecond, adjustQuality(emaFrame) and requestAnimationFrame(tick)
TickTail ==
  /\ pc = "tickTail"
  /\ \E db \in DrawingBuffers :
       LET ms == (9 * emaFrame + 10 * tickArgs.dt) \div 10
       IN  /\ emaFrame' = ms
           /\ IF sim # 0
                THEN /\ AdjustQuality(ms, db)
                     /\ rafPending' = IF AdjustThrows(ms, db) THEN rafPending
                                      ELSE Requested(rafPending)
                ELSE /\ rafPending' = Requested(rafPending)
                     /\ UNCHANGED <<settings, lastAdjust, resizeVars>>
  /\ pc' = "idle"
  /\ tickArgs' = [tickArgs EXCEPT !.active = FALSE]
  /\ lastOp' = "tick"
  /\ UNCHANGED <<envVars, stepArgs, passLog, steps, entry, budget, sim, constructed,
                 programs, running, lastT, eventsAttached, gui, errorShown, contextLost,
                 visible, platform, stale, screen,
                 reducedMotion>>

\* updateStats, every 100 ms once setupGUI has armed its interval (the two
\* check boxes are set): adjustQuality(emaFrame)
UpdateStats ==
  /\ pc = "idle"
  /\ gui
  /\ budget > 0
  /\ budget' = budget - 1
  /\ lastOp' = "stats"
  /\ \E db \in DrawingBuffers : AdjustQuality(emaFrame, db)
  /\ UNCHANGED <<envVars, stepVars, entry, sim, constructed, programs, running, lastT,
                 emaFrame, eventsAttached, gui, rafPending, errorShown, contextLost,
                 visible, tickArgs, platform, stale, screen,
                 reducedMotion>>

\* the window resize listener: sim?._resize()
WindowResize ==
  /\ pc = "idle"
  /\ eventsAttached
  /\ budget > 0
  /\ budget' = budget - 1
  /\ lastOp' = "resize"
  /\ IF sim # 0
       THEN \E db \in DrawingBuffers : ResizeWith(settings.qualityScale, db)
       ELSE UNCHANGED resizeVars
  /\ UNCHANGED <<envVars, settings, stepVars, entry, appVars>>

\* onPointerDown on the canvas: splatAt(x, y, 0, 0, 0, color), a velocity
\* splat of value zero and a dye splat, both of radius splatRadius times
\* (window.devicePixelRatio || 1)
PointerDown ==
  /\ pc = "idle"
  /\ eventsAttached
  /\ budget > 0
  /\ budget' = budget - 1
  /\ lastOp' = "splat"
  /\ IF sim = 0
       THEN UNCHANGED <<textures, velocity, dye, passLog, splatHist>>
       ELSE \E point \in PointerPoints, colour \in SeedColours :
              LET r == (DefaultSplatRadius *
                          (IF devicePixelRatio = 0 THEN 10 ELSE devicePixelRatio)) \div 10
                  av == [point |-> point, value |-> <<0, 0, 0>>, radius |-> r]
                  ad == [point |-> point, value |-> colour, radius |-> r]
                  r1 == SplatResult(textures, velocity, av)
                  r2 == SplatResult(r1.textures, dye, ad)
              IN  /\ textures' = r2.textures
                  /\ velocity' = r1.target
                  /\ dye' = r2.target
                  /\ passLog' = <<PassEntry("splat", framebuffers[write(velocity).fb],
                                            <<read(velocity).tex>>),
                                  SwapEntry("velocity"),
                                  PassEntry("splat", framebuffers[write(dye).fb],
                                            <<read(dye).tex>>),
                                  SwapEntry("dye")>>
                  /\ splatHist' =
                       [velocity |-> (IF splatHist.velocity = <<>>
                                        THEN <<textures[read(velocity).tex].data>>
                                        ELSE splatHist.velocity)
                                     \o <<[args |-> av,
                                           before |-> textures[read(velocity).tex].data]>>,
                        dye |-> (IF splatHist.dye = <<>>
                                   THEN <<textures[read(dye).tex].data>>
                                   ELSE splatHist.dye)
                                \o <<[args |-> ad,
                                      before |-> textures[read(dye).tex].data]>>]
  /\ glLog' = <<>>
  /\ UNCHANGED <<envVars, canvasWidth, canvasHeight, settings, simW, simH, pressure,
                 divergence, curl, bloom, framebuffers, nextName, pc, stepArgs, steps,
                 reallocated, entry, appVars>>

\* visibilitychange: running = document.visibilityState === "visible" &&
\* !prefersReducedMotion.matches
VisibilityChange ==
  /\ pc = "idle"
  /\ eventsAttached
  /\ budget > 0
  /\ budget' = budget - 1
  /\ lastOp' = "visibility"
  /\ visible' = ~visible
  /\ running' = (~visible /\ ~reducedMotion)
  /\ UNCHANGED <<contextLost, stale, glLog>>
  /\ UNCHANGED <<envVars, settings, canvasWidth, canvasHeight, simW, simH, fieldVars, glVars,
                 splatHist, reallocated, stepVars, entry, sim, constructed, programs, lastT,
                 emaFrame, eventsAttached, gui, rafPending, errorShown, tickArgs, platform,
                 lastAdjust, screen, reducedMotion>>

\* what the listeners that only write running leave alone
runningFrame ==
  UNCHANGED <<envVars, settings, canvasWidth, canvasHeight, simW, simH, fieldVars, glVars,
              splatHist, reallocated, stepVars, entry, sim, constructed, programs, lastT,
              emaFrame, eventsAttached, gui, rafPending, errorShown, tickArgs, platform,
              lastAdjust, screen, contextLost, stale, glLog>>

\* the change listener of prefersReducedMotion: running = !e.matches
ReducedMotionChange ==
  /\ pc = "idle"
  /\ eventsAttached
  /\ budget > 0
  /\ budget' = budget - 1
  /\ lastOp' = "motion"
  /\ reducedMotion' = ~reducedMotion
  /\ running' = reducedMotion
  /\ UNCHANGED visible
  /\ runningFrame

\* if (k === "p") { running = !running; }
PauseToggled(r) == ~r

\* keydown with the key p: if (!sim) return; running = !running
KeyPause ==
  /\ pc = "idle"
  /\ eventsAttached
  /\ budget > 0
  /\ budget' = budget - 1
  /\ lastOp' = "key"
  /\ running' = IF sim = 0 THEN running ELSE PauseToggled(running)
  /\ UNCHANGED <<visible, reducedMotion>>
  /\ runningFrame

\* webglcontextlost: e.preventDefault(); running = false
ContextLost ==
  /\ pc = "idle"
  /\ eventsAttached
  /\ ~contextLost
  /\ budget > 0
  /\ budget' = budget - 1
  /\ lastOp' = "contextlost"
  /\ contextLost' = TRUE
  /\ stale' = TRUE
  /\ running' = FALSE
  /\ UNCHANGED <<visible, glLog>>
  /\ UNCHANGED <<envVars, settings, canvasWidth, canvasHeight, simW, simH, fieldVars, glVars,
                 splatHist, reallocated, stepVars, entry, sim, constructed, programs, lastT,
                 emaFrame, eventsAttached, gui, rafPending, errorShown, tickArgs, platform,
                 lastAdjust, screen, reducedMotion>>

\* webglcontextrestored: try { sim = new FluidSim(canvas); seedDye(); running
\* = true } catch (e) { console.error(...) }; what the restored context
\* offers is the browser's choice
ContextRestored ==
  /\ pc = "idle"
  /\ eventsAttached
  /\ contextLost
  /\ budget > 0
  /\ budget' = budget - 1
  /\ contextLost' = FALSE
  /\ \E pf \in Platforms :
       /\ platform' = pf
       /\ IF ConstructorThrows(pf)
            THEN /\ lastOp' = "restoreFailed"
                 /\ UNCHANGED <<settings, resizeVars, passLog, entry, sim, constructed,
                                programs, stale, pc>>
            ELSE /\ Construct(Settings(DefaultOptions))
                 /\ lastOp' = "construct"
                 /\ pc' = "restoreSeed"
  /\ UNCHANGED <<envVars, stepArgs, steps, running, lastT, emaFrame, eventsAttached, gui,
                 rafPending, errorShown, visible, tickArgs, lastAdjust, screen,
                 reducedMotion>>

\* the Quality Scale slider of the GUI writes sim.settings.qualityScale
GuiQuality ==
  /\ gui
  /\ SetQualityIn(GuiQualityValues)

\* the page is loaded and init() has not run
InitAppIn(sizes, pfs, calls) ==
  /\ \E s \in sizes : clientWidth = s[1] /\ clientHeight = s[2]
  /\ devicePixelRatio \in PixelRatios
  /\ platform \in pfs
  /\ canvasWidth = 300
  /\ canvasHeight = 150
  /\ settings = <<>>
  /\ simW = 0
  /\ simH = 0
  /\ velocity = NoDoubleFBO
  /\ pressure = NoDoubleFBO
  /\ divergence = NoFBO
  /\ curl = NoFBO
  /\ dye = NoDoubleFBO
  /\ bloom = [prefilter |-> NoFBO, blur |-> NoDoubleFBO]
  /\ textures = <<>>
  /\ framebuffers = <<>>
  /\ nextName = 1
  /\ glLog = <<>>
  /\ pc = "load"
  /\ stepArgs = [w |-> 0, h |-> 0, dt |-> 0, i |-> 0]
  /\ passLog = <<>>
  /\ lastOp = "load"
  /\ reallocated = FALSE
  /\ splatHist = NoSplats
  /\ budget = calls
  /\ steps = 0
  /\ entry = NoContents
  /\ sim = 0
  /\ constructed = 0
  /\ programs = 0
  /\ running = TRUE
  /\ lastT = 0
  /\ emaFrame = InitialEmaFrame
  /\ eventsAttached = FALSE
  /\ gui = FALSE
  /\ rafPending = 0
  /\ errorShown = FALSE
  /\ contextLost = FALSE
  /\ visible = TRUE
  /\ tickArgs = [active |-> FALSE, dt |-> 0, now |-> 0, before |-> 0, quality |-> 0]
  /\ stale = FALSE
  /\ lastAdjust = NoAdjust
  /\ screen = NoScreen
  /\ reducedMotion = FALSE

InitApp == InitAppIn(FlowSurfaceSizes, Platforms, MaxApp)

\* the application: init, the frame loop, the stats interval and the
\* listeners that reach the solver
NextApp ==
  \/ AppInit
  \/ SeedDye
  \/ Tick
  \/ TickStep
  \/ StepVorticity
  \/ StepAdvectVelocity
  \/ StepDivergence
  \/ StepPressure
  \/ StepGradient
  \/ StepAdvectDye
  \/ TickRender
  \/ RenderBlurH
  \/ RenderBlurV
  \/ RenderComposite
  \/ TickTail
  \/ UpdateStats
  \/ WindowResize
  \/ PointerDown
  \/ GuiQuality

SpecApp == InitApp /\ [][NextApp]_vars

\* the application around a context loss
InitRestore == InitAppIn(FlowSurfaceSizes, {"ok"}, MaxRestore)

NextRestore ==
  \/ AppInit
  \/ SeedDye
  \/ Tick
  \/ TickStep
  \/ StepVorticity
  \/ StepAdvectVelocity
  \/ StepDivergence
  \/ StepPressure
  \/ StepGradient
  \/ StepAdvectDye
  \/ TickRender
  \/ RenderBlurH
  \/ RenderBlurV
  \/ RenderComposite
  \/ TickTail
  \/ VisibilityChange
  \/ ContextLost
  \/ ContextRestored

SpecRestore == InitRestore /\ [][NextRestore]_vars

\* the application with the listeners that write running, on a canvas whose
\* drawing buffer has the size of the simulation and on one where it is larger
InitLoss == InitAppIn(LossSurfaceSizes, {"ok"}, MaxLoss)

NextLoss ==
  \/ AppInit
  \/ SeedDye
  \/ Tick
  \/ TickStep
  \/ StepVorticity
  \/ StepAdvectVelocity
  \/ StepDivergence
  \/ StepPressure
  \/ StepGradient
  \/ StepAdvectDye
  \/ TickRender
  \/ RenderBlurH
  \/ RenderBlurV
  \/ RenderComposite
  \/ TickTail
  \/ VisibilityChange
  \/ ReducedMotionChange
  \/ KeyPause
  \/ ContextLost
  \/ ContextRestored

SpecLoss == InitLoss /\ [][NextLoss]_vars

\* ====================================================================== C1
\* the quality scalar is inside its range [0.25, 1.0]
QualityInRange == settings.qualityScale >= QualityLo /\ settings.qualityScale <= QualityHi

\* C1: for every quality scalar in [0.25, 1.0], a resize() that directly
\* follows a resize(), with surface size, device pixel ratio and quality
\* scalar unchanged in between, is a no-op: no GL object is created or
\* deleted and every field keeps its buffers and their content.
C1_SecondResizeIsNoop ==
  [][(lastOp = "resize" /\ lastOp' = "resize" /\ QualityInRange)
       => (glLog' = <<>> /\ UNCHANGED <<fieldVars, glVars>>)]_vars

\* ====================================================================== C2
\* the fixed order of passes and swaps of one step, for vorticity strength
\* eps and n pressure iterations
PassOrder(eps, n) ==
  <<"curl">> \o (IF eps > 0 THEN <<"vorticity", "swap">> ELSE <<>>)
  \o <<"advectVelocity", "swap", "divergence">>
  \o [k \in 1 .. 2 * n |-> IF k % 2 = 1 THEN "pressure" ELSE "swap"]
  \o <<"gradient", "swap", "advectDye", "swap">>


\* the double-buffered field a pass writes
FieldOfPass(kernel) ==
  CASE kernel \in {"vorticity", "advectVelocity", "gradient"} -> "velocity"
    [] kernel = "pressure" -> "pressure"
    [] kernel = "advectDye" -> "dye"
    [] OTHER -> "none"

\* positions in passLog of the passes of a kernel
PassesOf(kernel) == {k \in 1 .. Len(passLog) : passLog[k].kernel = kernel}

\* the storage written by the last pass of a kernel issued so far
LastDst(kernel) ==
  passLog[CHOOSE k \in PassesOf(kernel) : \A j \in PassesOf(kernel) : j <= k].dst

\* every pass read the output of the pass the order prescribes
PassDataFlow ==
  /\ \A k \in PassesOf("vorticity") :
       passLog[k].src = <<passLog[1].src[1], passLog[1].dst>>
  /\ \A k \in PassesOf("advectVelocity") :
       LET from == IF PassesOf("vorticity") # {} THEN LastDst("vorticity")
                   ELSE passLog[1].src[1]
       IN  passLog[k].src = <<from, from>>
  /\ \A k \in PassesOf("divergence") : passLog[k].src = <<LastDst("advectVelocity")>>
  /\ \A k \in PassesOf("pressure") : passLog[k].src[2] = LastDst("divergence")
  /\ \A k \in PassesOf("gradient") :
       /\ passLog[k].src[1] = LastDst("advectVelocity")
       /\ PassesOf("pressure") # {} => passLog[k].src[2] = LastDst("pressure")
  /\ \A k \in PassesOf("advectDye") : passLog[k].src[2] = LastDst("gradient")

\* C2: the passes of a step are issued in the fixed order curl, vorticity
\* (only when the strength is positive), velocity advection, divergence, N
\* pressure iterations, gradient subtraction, dye advection; each reads the
\* output of the pass before it as the order prescribes, each pass on a
\* double-buffered field is followed by one swap of that field, and a
\* finished step has issued all of them.
C2_PassOrder ==
  lastOp = "step" =>
    LET expected == PassOrder(settings.vorticity, settings.pressureIters)
    IN  /\ Len(passLog) <= Len(expected)
        /\ \A k \in 1 .. Len(passLog) : passLog[k].kernel = expected[k]
        /\ \A k \in 2 .. Len(passLog) :
             passLog[k].kernel = "swap" <=> FieldOfPass(passLog[k - 1].kernel) # "none"
        /\ \A k \in 2 .. Len(passLog) :
             passLog[k].kernel = "swap" => passLog[k].dst = FieldOfPass(passLog[k - 1].kernel)
        /\ pc = "idle" => Len(passLog) = Len(expected)
        /\ PassDataFlow

\* a step with vorticity confinement has run to its end
C2_Witness ==
  /\ lastOp = "step"
  /\ pc = "idle"
  /\ settings.vorticity > 0
  /\ PassesOf("vorticity") # {}
  /\ PassesOf("advectDye") # {}

\* ====================================================================== C3
DoubleFields == <<velocity, pressure, dye>>

\* read and write of a double-buffered field are two storages
TwoStorages(dbl) ==
  /\ read(dbl).tex # write(dbl).tex
  /\ read(dbl).fb # write(dbl).fb
  /\ framebuffers[write(dbl).fb] # read(dbl).tex
  /\ framebuffers[read(dbl).fb] # write(dbl).tex

\* C3: no pass of step() or splat() writes a storage it reads, and the read
\* side and the write side of velocity, pressure and dye are always two
\* different storages.
C3_NoReadWriteAlias ==
  /\ \A k \in 1 .. Len(passLog) :
       passLog[k].kernel # "swap" => passLog[k].dst \notin SeqRange(passLog[k].src)
  /\ \A k \in 1 .. Len(DoubleFields) : TwoStorages(DoubleFields[k])

\* a splat has been issued on a field that was swapped before
C3_Witness ==
  /\ lastOp = "splat"
  /\ budget = 0
  /\ Len(passLog) = 2
  /\ passLog[1].dst \notin SeqRange(passLog[1].src)
  /\ \E k \in 1 .. Len(DoubleFields) : read(DoubleFields[k]).tex > write(DoubleFields[k]).tex

\* ====================================================================== C4
\* the FBO objects of the simulation fields (bloom is presentation state)
SimFBOs == <<velocity.a, velocity.b, pressure.a, pressure.b, divergence, curl, dye.a, dye.b>>

\* C4: both sides of velocity, pressure and dye and the single buffers
\* divergence and curl have one common size, in the FBO objects and in the
\* textures behind them, and it is the recorded simulation size (_w, _h).
C4_OneSize ==
  \A k \in 1 .. Len(SimFBOs) :
    /\ SimFBOs[k].w = simW
    /\ SimFBOs[k].h = simH
    /\ textures[SimFBOs[k].tex].w = simW
    /\ textures[SimFBOs[k].tex].h = simH

\* the fields have been reallocated at a non-square size and used since
C4_Witness ==
  /\ simW # simH
  /\ nextName > 1 + AllocCount
  /\ lastOp \in {"splat", "step"}
  /\ \A k \in 1 .. Len(SimFBOs) : SimFBOs[k].w = simW /\ SimFBOs[k].h = simH

\* ====================================================================== C5
TexNames(f) == {FBOsOf(f)[k].tex : k \in 1 .. AllocCount}
FbNames(f) == {FBOsOf(f)[k].fb : k \in 1 .. AllocCount}

\* the live GL objects are exactly the ones the fields refer to
NoLeakNoDangling ==
  /\ DOMAIN textures = TexNames(Fields)
  /\ DOMAIN framebuffers = FbNames(Fields)
  /\ Cardinality(TexNames(Fields)) = AllocCount
  /\ \A b \in DOMAIN framebuffers : framebuffers[b] \in DOMAIN textures

\* in the GL calls of one handler, every delete comes before every create
DeletesBeforeCreates ==
  \A i \in 1 .. Len(glLog), j \in 1 .. Len(glLog) :
    (glLog[i].call = "create" /\ glLog[j].call = "delete") => j < i

\* a handler that reallocates releases every buffer held before; a texture
\* that survives a handler keeps its size
ReleasesAll ==
  /\ glLog' # <<>> =>
       /\ DOMAIN textures \cap DOMAIN textures' = {}
       /\ {glLog'[k].name : k \in {j \in 1 .. Len(glLog') : glLog'[j].call = "delete"}}
            = DOMAIN textures
  /\ (lastOp' = "reset" \/ (lastOp' = "resize" /\ reallocated')) => glLog' # <<>>
  /\ \A t \in DOMAIN textures \cap DOMAIN textures' :
       textures'[t].w = textures[t].w /\ textures'[t].h = textures[t].h

\* C5: a resize() that is not a no-op, and every reset(), releases every
\* field buffer held before and only then allocates the replacements; the
\* live buffers are always exactly the ones the fields refer to; no buffer
\* changes its size while it lives.
C5_ReleaseThenAllocate ==
  /\ [](NoLeakNoDangling /\ DeletesBeforeCreates)
  /\ [][ReleasesAll]_vars

\* a reallocating resize() followed by a reset()
C5_Witness ==
  /\ lastOp = "reset"
  /\ nextName = 1 + 3 * AllocCount
  /\ Len(glLog) = 2 * AllocCount
  /\ DOMAIN textures = TexNames(Fields)

\* ====================================================================== C6
\* max(16, floor(client * min(ratio, maxDPR) * scale)), scale in hundredths
AxisAt(client, scale) ==
  LET d == IF devicePixelRatio < settings.maxDPR THEN devicePixelRatio ELSE settings.maxDPR
      x == (client * d * scale) \div 1000
  IN  IF x < 16 THEN 16 ELSE x

\* resize() has just returned (the constructor ends with a call of it)
AfterResize == lastOp \in {"construct", "resize"}

\* C6: after resize() the simulation dimensions for a quality scalar above
\* 1.0 are those for 1.0 and for a quality scalar below 0.25 those for 0.25,
\* and resize() does not write the setting.
C6_QualityClamped ==
  /\ [](AfterResize =>
          /\ settings.qualityScale > 100 =>
               simW = AxisAt(clientWidth, 100) /\ simH = AxisAt(clientHeight, 100)
          /\ settings.qualityScale < 25 =>
               simW = AxisAt(clientWidth, 25) /\ simH = AxisAt(clientHeight, 25))
  /\ [][lastOp' = "resize" => settings' = settings]_vars

\* resize() has allocated with the quality scalar at 5.0, above the floor of 16
C6_Witness ==
  /\ lastOp = "resize"
  /\ reallocated
  /\ settings.qualityScale = 500
  /\ simW > 16
  /\ simW = AxisAt(clientWidth, 100)

\* ====================================================================== C7
ClampedQuality ==
  IF settings.qualityScale < 25 THEN 25
  ELSE IF settings.qualityScale > 100 THEN 100 ELSE settings.qualityScale

\* C7: after a resize() that allocates, each simulation axis is max(16,
\* floor(surface * min(devicePixelRatio, maxDPR) * clamp(quality, 0.25, 1)));
\* the simulation size is always at least 16 x 16 and the display backing
\* size at least 2 x 2, also for a surface of size 0.
C7_DimensionFloors ==
  /\ (AfterResize /\ reallocated) =>
       /\ simW = AxisAt(clientWidth, ClampedQuality)
       /\ simH = AxisAt(clientHeight, ClampedQuality)
  /\ simW >= 16 /\ simH >= 16
  /\ canvasWidth >= 2 /\ canvasHeight >= 2

\* resize() has allocated for a surface of size 0
C7_Witness ==
  /\ lastOp = "resize"
  /\ reallocated
  /\ clientWidth = 0 /\ clientHeight = 0
  /\ simW = 16 /\ simH = 16
  /\ canvasWidth = 2 /\ canvasHeight = 2

\* ====================================================================== C8
\* max(2, floor(client * min(devicePixelRatio, maxDPR)))
BackingAt(client) ==
  LET d == IF devicePixelRatio < settings.maxDPR THEN devicePixelRatio ELSE settings.maxDPR
      x == (client * d) \div 10
  IN  IF x < 2 THEN 2 ELSE x

\* C8: after every call of resize(), no-op or not, the display backing size
\* is max(2, floor(surface * clamped device pixel ratio)) on each axis.
C8_BackingTracksSurface ==
  lastOp = "resize" =>
    canvasWidth = BackingAt(clientWidth) /\ canvasHeight = BackingAt(clientHeight)

\* ====================================================================== C9
\* every cell of the texture named t is zero
AllZero(t) ==
  \A c \in Cells(textures[t].w, textures[t].h) :
    TexelAt(textures[t], c) = ZeroTexel(textures[t].ch)

\* C9: reset() leaves the simulation dimensions and the display backing size
\* as they are and replaces every field buffer by a newly allocated one of
\* that size, all of whose cells are zero.
C9_ResetClears ==
  [][lastOp' = "reset" =>
       /\ simW' = simW /\ simH' = simH
       /\ canvasWidth' = canvasWidth /\ canvasHeight' = canvasHeight
       /\ \A k \in 1 .. Len(SimFBOs) :
            /\ SimFBOs'[k].tex \notin DOMAIN textures
            /\ SimFBOs'[k].tex >= nextName
            /\ SimFBOs'[k].w = simW /\ SimFBOs'[k].h = simH
            /\ textures'[SimFBOs'[k].tex].w = simW
            /\ textures'[SimFBOs'[k].tex].h = simH
            /\ AllZero(SimFBOs[k].tex)']_vars

\* reset() has run after a pass had written into the fields
C9_Witness ==
  /\ lastOp = "reset"
  /\ passLog # <<>>
  /\ \A k \in 1 .. Len(SimFBOs) : AllZero(SimFBOs[k].tex)

\* ===================================================================== C10
\* the sum over the splats hist[from], hist[from + 1], ... of channel k of
\* value * weight at cell c
RECURSIVE SplatSum(_, _, _, _, _, _)
SplatSum(hist, from, c, k, tw, th) ==
  IF from > Len(hist) THEN 0
  ELSE hist[from].args.value[k]
         * SplatWeight(c, hist[from].args.point, hist[from].args.radius, tw, th)
       + SplatSum(hist, from + 1, c, k, tw, th)

\* channel k of cell c of the data recorded before the first splat
BaseAt(data, c, k) == IF c \in DOMAIN data THEN data[c][k] ELSE 0

\* the read side of a target holds what it held before the splats plus the
\* sum of their contributions, in each channel of the splat value
Accumulated(key) ==
  LET dbl == IF key = "velocity" THEN velocity ELSE dye
      t == textures[read(dbl).tex]
      hist == splatHist[key]
      n == IF key = "velocity" THEN 2 ELSE 3
  IN  \A c \in Cells(t.w, t.h), k \in 1 .. n :
        TexelAt(t, c)[k] = BaseAt(hist[1], c, k) + SplatSum(hist, 2, c, k, t.w, t.h)

\* C10: after any sequence of splats on a target with no step in between,
\* each cell of target.read is its value before the sequence plus the sum
\* of value * weight over the splats (so neither their order matters nor
\* does a splat overwrite an earlier one); a splat draws into target.write
\* from target.read and then swaps once.
C10_SplatsAccumulate ==
  /\ \A key \in {"velocity", "dye"} :
       (pc = "idle" /\ splatHist[key] # <<>>) => Accumulated(key)
  /\ lastOp = "splat" =>
       LET dbl == IF passLog[2].dst = "velocity" THEN velocity ELSE dye
       IN  /\ Len(passLog) = 2
           /\ passLog[1].kernel = "splat"
           /\ passLog[2].kernel = "swap"
           /\ passLog[1].dst = read(dbl).tex
           /\ passLog[1].src = <<write(dbl).tex>>

\* two different splats have hit the dye and overlap in a cell
C10_Witness ==
  /\ pc = "idle"
  /\ Len(splatHist.dye) = 3
  /\ splatHist.dye[2].args # splatHist.dye[3].args
  /\ \E c \in Cells(simW, simH) :
       /\ SplatWeight(c, splatHist.dye[2].args.point, splatHist.dye[2].args.radius,
                      simW, simH) > 0
       /\ SplatWeight(c, splatHist.dye[3].args.point, splatHist.dye[3].args.radius,
                      simW, simH) > 0
       /\ TexelAt(textures[read(dye).tex], c)[1] > 0

\* ===================================================================== C11
\* the last two writes of the dye were splats with the same arguments
SplatTwice ==
  /\ Len(splatHist.dye) >= 3
  /\ splatHist.dye[Len(splatHist.dye)].args = splatHist.dye[Len(splatHist.dye) - 1].args

\* the dye colour (r, g, b) that one splat with the arguments args and the
\* value doubled leaves in cell c of a field holding the contents data
OnceDoubled(data, args, c) ==
  LET t == [w |-> simW, h |-> simH, ch |-> RGBA, data |-> data]
      v == FS_SPLAT(t, c, args.point, [k \in 1 .. 3 |-> 2 * args.value[k]], args.radius,
                    simW, simH)
  IN  <<v[1], v[2], v[3]>>

\* C11: two splats splat(p, v, r, "dye") with the same arguments leave in
\* every cell of dye.read the colour that a single splat(p, 2v, r, "dye") on
\* the same field leaves there.
C11_SplatTwiceIsDouble ==
  SplatTwice =>
    LET first == splatHist.dye[Len(splatHist.dye) - 1]
    IN  \A c \in Cells(simW, simH) :
          LET now == TexelAt(textures[read(dye).tex], c)
          IN  <<now[1], now[2], now[3]>> = OnceDoubled(first.before, first.args, c)

\* the same splat has hit twice a dye field that an earlier, different
\* splat had coloured in a cell the two reach
C11_Witness ==
  /\ SplatTwice
  /\ LET first == splatHist.dye[Len(splatHist.dye) - 1]
     IN  \E c \in Cells(simW, simH) :
           /\ c \in DOMAIN first.before
           /\ first.before[c][1] > 0
           /\ SplatWeight(c, first.args.point, first.args.radius, simW, simH) > 0
           /\ first.args.value[1] > 0

\* ===================================================================== C12
\* velocity.read was zero in every cell when the last step() was entered
ZeroVelocityAtEntry == DOMAIN entry.velocity = {}

\* the last call was a step() and it has returned
StepDone == lastOp = "step" /\ pc = "idle"

\* C12: a step(dt), dt in [0, 0.033], entered with velocity.read zero in
\* every cell leaves in every cell of dye.read the value the cell held when
\* the step was entered multiplied by the dye dissipation factor.
\* Between calls the pressure is zero in every cell whenever the velocity
\* is, so that the gradient subtraction of such a step adds nothing.
C12_ZeroVelocityKeepsDye ==
  /\ (StepDone /\ ZeroVelocityAtEntry) =>
       \A c \in Cells(simW, simH), k \in 1 .. RGBA :
         TexelAt(textures[read(dye).tex], c)[k]
           = Quot(BaseAt(entry.dye, c, k) * settings.dyeDissipation, 1000)
  /\ (pc = "idle" /\ DOMAIN textures[read(velocity).tex].data = {}) =>
       DOMAIN textures[read(pressure).tex].data = {}

\* a step of 33 ms has run on zero velocity and coloured dye, with vorticity
\* confinement on, and the dissipation has lowered a cell
C12_Witness ==
  /\ StepDone
  /\ ZeroVelocityAtEntry
  /\ stepArgs.dt = 33
  /\ settings.vorticity > 0
  /\ \E c \in DOMAIN entry.dye :
       /\ entry.dye[c][1] > 0
       /\ TexelAt(textures[read(dye).tex], c)[1] < entry.dye[c][1]

\* ===================================================================== C13
\* a step() has been entered and has not yet issued its last pass
MidStep == lastOp = "step" /\ pc # "idle"

\* C13 as stated: at every pass boundary inside a step, velocity.read,
\* pressure.read and dye.read hold the contents they held when the step was
\* entered.
C13_ReadSidesKeptMidStep == MidStep => ReadContents = entry

\* positions in passLog of the passes that wrote the double-buffered field
PassesOn(field) == {k \in 1 .. Len(passLog) : FieldOfPass(passLog[k].kernel) = field}

\* the read side of a field is what the step found, if no pass of the step
\* has written the field, and else the storage its last such pass drew into
HoldsLastPass(field, dbl) ==
  IF PassesOn(field) = {}
    THEN textures[read(dbl).tex].data = entry[field]
    ELSE read(dbl).tex
           = passLog[CHOOSE k \in PassesOn(field) : \A j \in PassesOn(field) : j <= k].dst

\* C13 amended: at every pass boundary inside a step, dye.read holds the
\* contents it held when the step was entered, while velocity.read and
\* pressure.read hold the whole output of the last pass of this step that
\* wrote them (what the step found only while no such pass has run).
C13_ReadSidesMidStep ==
  MidStep =>
    /\ textures[read(dye).tex].data = entry.dye
    /\ HoldsLastPass("velocity", velocity)
    /\ HoldsLastPass("pressure", pressure)
    /\ HoldsLastPass("dye", dye)

\* a step stands between velocity advection and the divergence pass: the
\* read side of the velocity already differs from what the step found, the
\* coloured dye does not
C13_Witness ==
  /\ MidStep
  /\ pc = "divergence"
  /\ textures[read(velocity).tex].data # entry.velocity
  /\ entry.dye # ZeroData(simW, simH, RGBA)
  /\ textures[read(dye).tex].data = entry.dye

\* ===================================================================== C18
\* the index on an axis of n cells that lies nearest to index i
NearestOnAxis(i, n) == IF i < 0 THEN 0 ELSE IF i > n - 1 THEN n - 1 ELSE i

\* the texel of texture t in the cell of the grid nearest to cell (i, j)
EdgeTexel(t, i, j) == Vec4(t, <<NearestOnAxis(i, t.w), NearestOnAxis(j, t.h)>>)

\* the edge cells of an axis of n cells and the two positions beyond each
AcrossAxis(n) == {0 - 2, 0 - 1, 0, n - 1, n, n + 1}

\* sampling texture t at the centre of any cell position, inside the grid
\* or beyond it, gives the texel of the nearest cell of the grid
SamplesClamped(t) ==
  \A i \in AcrossAxis(t.w), j \in AcrossAxis(t.h) :
    texture(t, 2 * i + 1, 2 * t.w, 2 * j + 1, 2 * t.h) = EdgeTexel(t, i, j)

\* the bilinear sampler, taken between cell positions of which some or all lie
\* beyond the grid, blends the texels of the nearest cells of the grid
BilerpClamped(t) ==
  \A i \in AcrossAxis(t.w), j \in AcrossAxis(t.h) :
    bilerp(t, i, 250, j, 250, 1000, t.w, t.h)
      = [k \in 1 .. 4 |->
           Mix(Mix(EdgeTexel(t, i, j)[k], EdgeTexel(t, i + 1, j)[k], 250, 1000),
               Mix(EdgeTexel(t, i, j + 1)[k], EdgeTexel(t, i + 1, j + 1)[k], 250, 1000),
               250, 1000)]

\* the divergence formula with every neighbour beyond the grid replaced by
\* the nearest cell of the grid
DivergenceAtEdge(vel, c) ==
  Quot((EdgeTexel(vel, c[1] + 1, c[2])[1] - EdgeTexel(vel, c[1] - 1, c[2])[1])
       + (EdgeTexel(vel, c[1], c[2] + 1)[2] - EdgeTexel(vel, c[1], c[2] - 1)[2]), 2)

\* the divergence pass of the running step has just been issued
AfterDivergencePass == lastOp = "step" /\ pc = "pressure" /\ stepArgs.i = 0

\* C18: sampling a field beyond [0,1]^2 yields the texel of the nearest
\* edge cell, in the direct neighbour lookups of the kernels and in each of
\* the four taps of the bilinear sampler on the fields it reads (velocity
\* and dye); at the grid edges the divergence pass computes its formula over
\* these clamped neighbours.
C18_ClampToEdge ==
  /\ \A k \in 1 .. Len(SimFBOs) : SamplesClamped(textures[SimFBOs[k].tex])
  /\ BilerpClamped(textures[read(velocity).tex])
  /\ BilerpClamped(textures[read(dye).tex])
  /\ AfterDivergencePass =>
       \A c \in Cells(simW, simH) :
         TexelAt(textures[divergence.tex], c)[1]
           = DivergenceAtEdge(textures[read(velocity).tex], c)

\* the divergence pass has run over a velocity that is non-zero in an edge
\* cell and differs from the cell on the opposite edge
C18_Witness ==
  /\ AfterDivergencePass
  /\ LET vel == textures[read(velocity).tex]
     IN  \E j \in 0 .. simH - 1 :
           /\ TexelAt(vel, <<0, j>>)[1] # 0
           /\ TexelAt(vel, <<0, j>>) # TexelAt(vel, <<simW - 1, j>>)
           /\ TexelAt(textures[divergence.tex], <<0, j>>)[1] # 0

\* ===================================================================== C19
\* what the gradient pass would write from the pressure texture prs: the
\* velocity a step puts on velocity.read when it leaves the loop with prs
Projected(prs) ==
  LET vel == textures[read(velocity).tex]
  IN  [vel EXCEPT !.data =
         [c \in Cells(vel.w, vel.h) |->
            LET g == FS_GRADIENT(vel, prs, c, stepArgs.w, stepArgs.h)
            IN  <<g[1], g[2]>>]]

\* the divergence formula reapplied to that velocity, at cell c
ResidualAt(prs, c) == FS_DIVERGENCE(Projected(prs), c, stepArgs.w, stepArgs.h)[1]

\* the cells of the grid in row order
CellNo(n) == <<n % stepArgs.w, n \div stepArgs.w>>

\* the magnitude of the residual over the cells numbered lo .. hi, in the
\* maximum, the sum and the square norm
RECURSIVE Norms(_, _, _)
Norms(prs, lo, hi) ==
  IF lo = hi
    THEN LET r == ResidualAt(prs, CellNo(lo))
         IN  [max |-> Abs(r), sum |-> Abs(r), sq |-> r * r]
    ELSE LET mid == (lo + hi) \div 2
             a == Norms(prs, lo, mid)
             b == Norms(prs, mid + 1, hi)
         IN  [max |-> Max(a.max, b.max), sum |-> a.sum + b.sum, sq |-> a.sq + b.sq]

Residual(prs) == Norms(prs, 0, stepArgs.w * stepArgs.h - 1)

\* N >= 2 iterations of the pressure loop of a step entered with zero
\* pressure are done: pressure.read holds the iterate N and, since the swap,
\* pressure.write the iterate N - 1
TwoIterates ==
  /\ pc = "pressure"
  /\ stepArgs.i >= 2
  /\ DOMAIN entry.pressure = {}

\* C19: on a fixed velocity field and from zero pressure, the magnitude of the
\* divergence of the velocity left by the gradient pass does not grow when
\* the pressure iteration count grows by one (in at least one of the maximum,
\* sum and square norms).
C19_ResidualDecreases ==
  TwoIterates =>
    LET now == Residual(textures[read(pressure).tex])
        before == Residual(textures[write(pressure).tex])
    IN  \/ now.max <= before.max
        \/ now.sum <= before.sum
        \/ now.sq <= before.sq
\* ===================================================================== C15
\* init() has reported the failure of the constructor and nothing else exists
InitFailed ==
  /\ errorShown
  /\ sim = 0
  /\ constructed = 0
  /\ programs = 0
  /\ DOMAIN textures = {}
  /\ DOMAIN framebuffers = {}
  /\ nextName = 1
  /\ ~eventsAttached
  /\ ~gui
  /\ rafPending = 0
  /\ steps = 0
  /\ passLog = <<>>
  /\ splatHist = NoSplats
  /\ ~reallocated

\* C15: when init() runs without a rendering context or without float render
\* targets, it ends with the error shown, sim null, no program, buffer, event
\* handler or frame request; and from a state with the error shown no handler
\* ever runs, so no step, splat or resize is issued.
C15_FailedConstruction ==
  [][/\ (pc = "load" /\ platform # "ok") => InitFailed'
     /\ ~errorShown]_vars

C15_Witness ==
  /\ InitFailed
  /\ platform = "noFloat"
  /\ lastOp = "initFailed"
  /\ budget > 0

\* ===================================================================== C16
\* the dye of the held instance has colour somewhere
DyeSeeded ==
  \E c \in DOMAIN textures[read(dye).tex].data :
    \E k \in 1 .. 3 : textures[read(dye).tex].data[c][k] # 0

\* the frame loop is alive: a tick is requested or running
LoopAlive == rafPending > 0 \/ tickArgs.active

\* C16: when the context-restored handler has rebuilt the solver, the
\* application holds a newly constructed instance with seeded dye, running is
\* true and the frame loop is alive to step it; when the reconstruction has
\* failed, running is false.
C16_RestoreResumes ==
  /\ lastOp = "restored" =>
       /\ sim = constructed
       /\ constructed > 1
       /\ ~stale
       /\ DyeSeeded
       /\ running
       /\ LoopAlive
  /\ lastOp = "restoreFailed" => ~running

C20_DtClamped == steps > 0 => (stepArgs.dt >= 0 /\ stepArgs.dt <= 33)

C20_Witness ==
  /\ steps = 2
  /\ pc = "pressure"
  /\ tickArgs.now < tickArgs.before
  /\ stepArgs.dt = 0

\* ===================================================================== C21
\* positions in passLog of the swaps of a double-buffered field
SwapsOf(field) ==
  {k \in 1 .. Len(passLog) : passLog[k].kernel = "swap" /\ passLog[k].dst = field}

\* the pressure loop of the running or last step() has been left
LoopLeft == pc \in {"advectDye", "tickRender", "blurH", "blurV", "composite", "tickTail", "idle"}

\* C21: one step() with iteration count N > 0 performs exactly N pressure
\* passes and N pressure swaps (i of them when the loop variable stands at
\* i); every iteration after the first samples as pressure.read the storage
\* the iteration before it drew into, all iterations sample the storage the
\* divergence pass drew into, and nothing draws into that storage between
\* the divergence pass and the gradient pass.
C21_PressureLoop ==
  (lastOp = "step" /\ settings.pressureIters > 0) =>
    LET ps == PassesOf("pressure")
    IN  /\ pc = "pressure" => Cardinality(ps) = stepArgs.i
        /\ LoopLeft => Cardinality(ps) = settings.pressureIters
        /\ Cardinality(ps) <= settings.pressureIters
        /\ Cardinality(SwapsOf("pressure")) = Cardinality(ps)
        /\ \A k \in ps : passLog[k + 1] = SwapEntry("pressure")
        /\ \A k \in ps : (k + 2) \in ps => passLog[k + 2].src[1] = passLog[k].dst
        /\ \A k \in ps : passLog[k].src[2] = LastDst("divergence")
        /\ \A k \in ps : passLog[k].src[2] = divergence.tex
        /\ \A d \in PassesOf("divergence"), k \in 1 .. Len(passLog) :
             (k > d /\ passLog[k].kernel \notin {"swap", "advectDye"})
               => passLog[k].dst # passLog[d].dst
        /\ ps # {} => read(pressure).tex = LastDst("pressure")

\* a step with 18 iterations has left its loop, and the pressure it leaves
\* is not zero
C21_Witness ==
  /\ lastOp = "step"
  /\ LoopLeft
  /\ settings.pressureIters = DefaultPressureIters
  /\ Cardinality(PassesOf("pressure")) = DefaultPressureIters
  /\ DOMAIN textures[read(pressure).tex].data # {}

\* ===================================================================== C22
\* the velocity advection of the running step() is the next pass
BeforeAdvection == lastOp = "step" /\ pc = "advectVelocity"

\* C22: with a vorticity strength <= 0 a step() issues no vorticity pass and
\* swaps velocity exactly twice, its curl pass still writes the curl of the
\* velocity, and its velocity advection samples the storage and the contents
\* velocity.read had when the step was entered; with a strength > 0 it issues
\* one vorticity pass and swaps velocity exactly three times.
C22_VorticitySkipped ==
  /\ (lastOp = "step" /\ settings.vorticity <= 0) =>
       /\ PassesOf("vorticity") = {}
       /\ passLog[1].kernel = "curl"
       /\ Cardinality(SwapsOf("velocity")) <= 2
       /\ LoopLeft => Cardinality(SwapsOf("velocity")) = 2
       /\ \A k \in PassesOf("advectVelocity") :
            passLog[k].src = <<passLog[1].src[1], passLog[1].src[1]>>
       /\ BeforeAdvection =>
            /\ SwapsOf("velocity") = {}
            /\ textures[read(velocity).tex].data = entry.velocity
            /\ \A c \in Cells(curl.w, curl.h) :
                 TexelAt(textures[curl.tex], c)[1]
                   = FS_CURL(textures[read(velocity).tex], c, stepArgs.w, stepArgs.h)[1]
  /\ (lastOp = "step" /\ settings.vorticity > 0) =>
       /\ pc # "vorticity" => Cardinality(PassesOf("vorticity")) = 1
       /\ Cardinality(SwapsOf("velocity")) <= 3
       /\ LoopLeft => Cardinality(SwapsOf("velocity")) = 3

\* a step with a negative strength stands before its velocity advection,
\* over a velocity with curl
C22_Witness ==
  /\ BeforeAdvection
  /\ settings.vorticity < 0
  /\ DOMAIN entry.velocity # {}
  /\ DOMAIN textures[curl.tex].data # {}

\* ===================================================================== C23
\* the double FBO went from before to after by one swap() that followed a
\* pass: read is the FBO (texture, framebuffer, width, height) that was
\* write and write the one that was read, the storage that was read holds
\* what it held, the storage that was write is the one the pass before the
\* swap drew into, and one more swap() gives the roles of before
Swapped(field, before, after) ==
  /\ read(after) = write(before)
  /\ write(after) = read(before)
  /\ read(after) = [tex |-> before.b.tex, fb |-> before.b.fb, w |-> before.b.w,
                     h |-> before.b.h]
  /\ textures'[write(after).tex] = textures[read(before).tex]
  /\ DOMAIN textures' = DOMAIN textures
  /\ framebuffers' = framebuffers
  /\ passLog'[Len(passLog')] = SwapEntry(field)
  /\ passLog'[Len(passLog') - 1].dst = read(after).tex
  /\ read(swap(after)) = read(before)
  /\ write(swap(after)) = write(before)

\* C23: every pass of step() and every splat() that changes a double FBO
\* changes it by one swap: the roles of its two storages are exchanged with
\* their dimensions, no storage is created, deleted or copied, the storage
\* that was read keeps its contents, and a second swap would restore the
\* roles.
C23_SwapExchanges ==
  [][/\ velocity' # velocity => Swapped("velocity", velocity, velocity')
     /\ pressure' # pressure => Swapped("pressure", pressure, pressure')
     /\ dye' # dye => Swapped("dye", dye, dye')]_vars

\* a velocity splat has drawn into the second storage of velocity and
\* swapped: it is the read side and holds the splat, the first is the write
\* side and is still empty
C23_Witness ==
  /\ lastOp = "splat"
  /\ passLog[Len(passLog)] = SwapEntry("velocity")
  /\ read(velocity).tex = 2
  /\ write(velocity).tex = 1
  /\ DOMAIN textures[2].data # {}
  /\ DOMAIN textures[1].data = {}

\* ===================================================================== C24
\* the kernels of renderToScreen() that sample the dye
DyeKernels == {"bloomPrefilter", "bloomFinal", "render"}

\* C24: a storage of the dye whose texels change (by a dye advection or a
\* dye splat) is dye.read afterwards; every pass of renderToScreen() that
\* samples the dye samples that dye.read, with bloom and without, the canvas
\* shows its texels when renderToScreen() returns, and no pass of
\* renderToScreen() changes the texels or the read and write roles of
\* velocity, pressure, divergence, curl and dye.
C24_RenderReadsDye ==
  [][/\ \A t \in {read(dye).tex, write(dye).tex} :
          textures'[t].data # textures[t].data => t = read(dye').tex
     /\ lastOp' = "render" =>
          /\ UNCHANGED <<velocity, pressure, divergence, curl, dye>>
          /\ \A k \in 1 .. Len(SimFBOs) :
               textures'[SimFBOs[k].tex] = textures[SimFBOs[k].tex]
          /\ \A k \in 1 .. Len(screen'.passes) :
               /\ screen'.passes[k].kernel \in DyeKernels
                    => screen'.passes[k].src[1] = read(dye).tex
               /\ screen'.passes[k].kernel # "swap"
                    => screen'.passes[k].dst \notin {SimFBOs[j].tex : j \in 1 .. Len(SimFBOs)}
          /\ pc' = "idle" =>
               /\ screen'.data = textures[read(dye).tex].data
               /\ screen'.passes[Len(screen'.passes)].kernel
                    = IF settings.bloomEnabled THEN "bloomFinal" ELSE "render"]_vars

\* renderToScreen() with bloom has returned after a dye splat and a step: the
\* canvas shows the advected dye of dye.read, which differs from dye.write,
\* and the blurred bloom is not empty
C24_Witness ==
  /\ lastOp = "render"
  /\ pc = "idle"
  /\ settings.bloomEnabled
  /\ steps = 1
  /\ screen.renders = 1
  /\ screen.data = textures[read(dye).tex].data
  /\ screen.data # textures[write(dye).tex].data
  /\ \E c \in DOMAIN screen.data : screen.data[c][1] > 0
  /\ \E c \in DOMAIN textures[read(bloom.blur).tex].data :
       textures[read(bloom.blur).tex].data[c][1] > 0

\* ===================================================================== C25
\* the transition is a splat() recorded under key, and target is the value
\* of its fourth argument
SplatWith(key, target) ==
  /\ lastOp' = "splat"
  /\ splatHist'[key] # splatHist[key]
  /\ splatHist'[key][Len(splatHist'[key])].target = target

\* the texels of the storages of the FBOs in fbos are what they were
SameTexels(fbos) ==
  \A k \in 1 .. Len(fbos) : textures'[fbos[k].tex] = textures[fbos[k].tex]

\* C25: a splat with target "velocity" changes only the velocity double
\* buffer and a splat with any other target, "dye" or an unrecognised
\* string, only the dye double buffer: pressure, divergence, curl and the
\* field that is not the target keep their texels and their read and write
\* roles, the target is swapped once, and the simulation dimensions and the
\* dimensions of every buffer stay.
C25_SplatTouchesTarget ==
  [][\A key \in {"velocity", "dye"}, target \in SplatTargets :
       SplatWith(key, target) =>
         /\ UNCHANGED <<pressure, divergence, curl, simW, simH, framebuffers>>
         /\ SameTexels(<<pressure.a, pressure.b, divergence, curl>>)
         /\ DOMAIN textures' = DOMAIN textures
         /\ \A t \in DOMAIN textures :
              textures'[t].w = textures[t].w /\ textures'[t].h = textures[t].h
         /\ IF target = "velocity"
              THEN /\ UNCHANGED dye
                   /\ SameTexels(<<dye.a, dye.b>>)
                   /\ Swapped("velocity", velocity, velocity')
              ELSE /\ UNCHANGED velocity
                   /\ SameTexels(<<velocity.a, velocity.b>>)
                   /\ Swapped("dye", dye, dye')]_vars

\* a splat with an unrecognised target has coloured the dye and left the
\* velocity zero
C25_Witness ==
  /\ lastOp = "splat"
  /\ splatHist.dye # <<>>
  /\ splatHist.dye[Len(splatHist.dye)].target = "smoke"
  /\ DOMAIN textures[read(dye).tex].data # {}
  /\ textures[read(dye).tex].data # textures[write(dye).tex].data
  /\ DOMAIN textures[read(velocity).tex].data = {}
\* ===================================================================== C26
\* the pressure solve of a step is about to run its first iteration
SolveStarts == pc = "pressure" /\ stepArgs.i = 0

\* the read side of pressure holds the same texels after the transition
PressureKept ==
  textures'[read(pressure').tex].data = textures[read(pressure).tex].data

\* only an iteration of the pressure loop changes what pressure.read holds,
\* and the first iteration of a step samples pressure.read
PressureCarried ==
  /\ ~(pc = "pressure" /\ pc' = "pressure") => PressureKept
  /\ (SolveStarts /\ pc' = "pressure") =>
        passLog'[Len(passLog') - 1] =
          PassEntry("pressure", framebuffers[write(pressure).fb],
                    <<read(pressure).tex, divergence.tex>>)

\* pressure is zero when the first solve since the construction starts
ZeroBeforeFirstStep == (SolveStarts /\ steps = 1) => AllZero(read(pressure).tex)

\* pressure is zero at the start of a solve only if it is the first solve
ZeroOnlyBeforeFirstStep == (SolveStarts /\ AllZero(read(pressure).tex)) => steps = 1

\* C26 as the specification states it: step() never clears pressure, the first
\* pressure iteration of a step reads the pressure the previous step left,
\* and pressure is all-zero when a solve starts only if no step has run
\* since the construction.
C26_ZeroOnlyWithoutStep == []ZeroOnlyBeforeFirstStep /\ [][PressureCarried]_vars

\* C26: step() never clears pressure: outside the iterations of the pressure
\* loop no pass of step() and no splat changes what pressure.read holds, the
\* first pressure iteration of a step samples pressure.read, which so holds
\* what the last iteration of the previous step left, and pressure is
\* all-zero when the first solve since the construction starts.
C26_PressureCarriedOver == []ZeroBeforeFirstStep /\ [][PressureCarried]_vars

\* the second step of a run starts its solve on a pressure field that is not zero
C26_Witness == SolveStarts /\ steps = 2 /\ ~AllZero(read(pressure).tex)

\* ===================================================================== C27
\* tick runs on a running application with a solver; its _resize has returned
\* and its step has not started
FrameResized == pc = "idle" /\ pc' = "tickStep"

\* a frame came before, with the quality scalar this frame finds (the surface
\* size and the device pixel ratio are the same in every state)
SameAsLastFrame == tickArgs.now # 0 /\ tickArgs.quality = settings.qualityScale

\* the read sides of dye and velocity hold the same texels after the transition
FieldsKept ==
  /\ textures'[read(dye').tex].data = textures[read(dye).tex].data
  /\ textures'[read(velocity').tex].data = textures[read(velocity).tex].data

\* C27: while running is true and the surface size, the device pixel ratio
\* and the quality scalar are those of the frame before, the _resize call at
\* the start of tick leaves dye and velocity as they were before the frame
\* (from earlier steps and from splats between the frames), so the step of
\* the frame reads them.
C27_ResizeKeepsFields == [][(FrameResized /\ SameAsLastFrame) => FieldsKept]_vars

\* ===================================================================== C28
\* step() or renderToScreen() of tick is running
FrameWorks ==
  pc \in {"tickStep", "vorticity", "advectVelocity", "divergence", "pressure", "advectDye",
          "tickRender", "blurH", "blurV", "composite"}

\* C28: from a context-lost event to the next context-restored event whose
\* constructor succeeds, whatever key presses, visibility changes and changes
\* of the reduced-motion preference come between, tick calls neither step
\* nor renderToScreen on the instance that lost its context.
C28_NoFrameWhileLost == stale => ~FrameWorks

\* ===================================================================== C29
\* a step of tick(now) on an application that holds a solver with a live
\* context and is not running
PausedTick ==
  /\ ~running
  /\ sim # 0
  /\ ~stale
  /\ \/ pc = "idle" /\ lastOp' = "tick"
     \/ pc = "tickTail"

\* every field keeps its buffers and every buffer its texels
SolverUntouched ==
  /\ fieldVars' = fieldVars
  /\ \A k \in 1 .. Len(SimFBOs) :
       textures'[SimFBOs[k].tex].data = textures[SimFBOs[k].tex].data

\* C29: while running is false a tick calls neither step nor renderToScreen,
\* and it leaves every field of the solver with the buffers and the contents
\* it had, however many paused ticks run.
C29_PausedTickIsIdle == [][PausedTick => (~FrameWorks' /\ SolverUntouched)]_vars

\* ===================================================================== C30
\* the call of adjustQuality that ends this tick throws
TailThrows == contextLost /\ lastAdjust'.resized /\ reallocated'

\* what each transition does to the pending callbacks: init requests the
\* first, a tick consumes one and requests one when it returns, and nothing
\* else (the context-restored handler least of all) requests one
LoopKept ==
  /\ pc = "initSeed" => (rafPending = 0 /\ rafPending' = 1)
  /\ (pc = "idle" /\ lastOp' = "tick") => (rafPending = 1 /\ rafPending' = 0)
  /\ pc = "tickTail" => rafPending' = (IF sim # 0 /\ TailThrows THEN 0 ELSE 1)
  /\ ~(pc \in {"initSeed", "tickTail"} \/ (pc = "idle" /\ lastOp' = "tick"))
       => rafPending' = rafPending

\* one frame callback is pending whenever no handler runs
OnePending == (sim # 0 /\ pc = "idle") => rafPending = 1

\* C30: after a successful init every tick that returns schedules exactly one
\* next tick, whether running is true or false, and the context-restored
\* handler schedules none, so exactly one frame callback is pending at any
\* time between the callbacks and the loop never stops by itself.
C30_LoopNeverStops == []OnePending /\ [][LoopKept]_vars

====
